---- MODULE Spec2Model ----
(***************************************************************************)
(* Employee repositories of ishkuratova/patterns-design.                   *)
(*                                                                         *)
(*   src/lab2/reps.py   EmployeeRep (file snapshot base class), the JSON   *)
(*                      and YAML stores, EmployeeRepDB, the reloading      *)
(*                      EmployeeRepDBAdapter and EmployeeRepDecorator      *)
(*   src/reps.py        the same file backend with the non-raising         *)
(*                      get_k_n_short_list, and the EmployeeRepDBAdapter   *)
(*                      that reconciles the table with its list            *)
(*   src/task3/models/employee.py   the field validators, the passport,    *)
(*                      the construction paths and the comparison          *)
(*   src/task3/models/observer.py, observable_repositroy.py   the observer *)
(*                      list and the notifying wrapper                     *)
(*                                                                         *)
(* Specifications:                                                         *)
(*   Spec      one file-backend repository instance (add, update, delete,  *)
(*             sort, get_by_id, count) with its file snapshot              *)
(*   SpecRead  the paging and sorting functions, each applied once to a    *)
(*             drawn collection                                            *)
(*   SpecDB    one relational adapter instance over its store              *)
(*   SpecBoth  one instance that is either a file backend or an adapter,   *)
(*             under the same add, update and delete calls                 *)
(*   SpecLoad  the construction of a JSON or YAML backend from a drawn     *)
(*             document                                                    *)
(*   SpecIO    a file backend whose writes may fail                        *)
(*   SpecObs   the notifying wrapper around a file backend, with observers *)
(*             attaching and detaching                                     *)
(*   SpecDec   a file backend under add, update and delete, read through   *)
(*             the decorators                                              *)
(*   SpecEntity  Employee objects constructed from drawn arguments, then   *)
(*             compared or given a patronymic                              *)
(*   SpecRecon the reconciling relational adapter of src/reps.py over its  *)
(*             table (add, update, delete, write_all, read_all)            *)
(*   SpecPeers two relational adapters of src/lab2/reps.py on one table    *)
(*   SpecHolder  DatabaseConnection(...) calls made one after the other    *)
(*   SpecRace  DatabaseConnection(...) calls whose statements interleave   *)
(*   SpecTwo   two file backend instances on one file, each adding         *)
(*   SpecNotify  the notifying wrapper with observers whose update may     *)
(*             detach an observer or raise                                 *)
(*   SpecDegraded  a file backend constructed on a malformed file, then    *)
(*             adding                                                      *)
(***************************************************************************)
EXTENDS Integers, Sequences, FiniteSets, TLC

VARIABLES
    employees,  \* EmployeeRep._employees: the in-memory list (the adapter's mirror)
    file,       \* the content of the snapshot file of a file backend
    store,      \* the rows of table employees, as a sequence ordered by employee_id
    serial,     \* the last value handed out by the SERIAL sequence of the table
    lastOp,     \* the operation that ran last, with its arguments
    result,     \* what that operation returned or raised
    issued,     \* history: the set of ids add_employee has returned so far
    observers,  \* Subject._observers: the attached observers, in attach order
    notified,   \* the Observer.update calls made by the operation that ran last
    loaded,     \* history: the employees_loaded events delivered so far
    peer,       \* _employees of a second repository instance on the same file or table
    _instance,  \* DatabaseConnection._instance: 0 for None, else an index of created
    created,    \* the DatabaseConnection objects created so far
    calls       \* the DatabaseConnection(...) calls made: position, arguments, return value

\* the state of the connection-parameter holder
holderVars == <<_instance, created, calls>>

vars == <<employees, file, store, serial, lastOp, result, issued, observers, notified,
          loaded, peer, holderVars>>

\* before the first DatabaseConnection(...) call: _instance = None
NoHolder == _instance = 0 /\ created = <<>> /\ calls = <<>>

(***************************************************************************)
(* Bounds of the model.                                                    *)
(***************************************************************************)
MaxLen == 3          \* add_employee is taken while the list is shorter than this
MaxId == 3           \* add_employee is taken while the new id is at most this
MaxK == 3            \* page sizes are -1..MaxK
MaxN == 3            \* page indexes are -1..MaxN
MaxDrawn == 3        \* length of the collections drawn by SpecRead
MaxSerial == 2       \* the adapter inserts while the sequence is below this
MaxItems == 2        \* length of the record lists in the files drawn by SpecLoad

(***************************************************************************)
(* Values.                                                                 *)
(***************************************************************************)
None == "None"

\* Names as callers supply them: two valid ones, one with leading blank,
\* one holding a digit.
NameInputs == {"A", "B", " B", "1"}
\* Salaries as callers supply them: a negative one and two valid ones.
SalaryInputs == {-1, 0, 1}

\* str.strip() on the name inputs.
Strip(v) == IF v = " B" THEN "B" ELSE IF v = "  " THEN "" ELSE v

\* re.match(r'^[A-Za-z...\- ]+$', s): the names made of letters only.
MatchesNamePattern(s) == s \in {"A", "B"}

\* Python orders strings by code point.
NameOrd(s) == CASE s = "A" -> 65 [] s = "B" -> 66 [] s = "1" -> 49
                [] s = " B" -> 32 [] OTHER -> 0

Ok(v) == [ok |-> TRUE, val |-> v]
Fail == [ok |-> FALSE, val |-> None]

\* Person.validate_name
validate_name(value, is_patronymic) ==
    IF is_patronymic /\ value = None THEN Ok(None)
    ELSE IF ~MatchesNamePattern(Strip(value)) THEN Fail
    ELSE IF Strip(value) = "" THEN (IF is_patronymic THEN Ok(None) ELSE Fail)
    ELSE Ok(Strip(value))

\* Employee.validate_employee_id
validate_employee_id(employee_id) ==
    IF employee_id <= 0 THEN Fail ELSE Ok(employee_id)

\* Employee.validate_salary
validate_salary(salary) ==
    IF salary < 0 THEN Fail ELSE Ok(salary)

\* Employee(employee_id, first_name, last_name, patronymic, salary): the
\* positional constructor the repositories call; ok = FALSE is ValueError.
NewEmployee(employee_id, first_name, last_name, patronymic, salary) ==
    LET f == validate_name(first_name, FALSE)
        l == validate_name(last_name, FALSE)
        p == validate_name(patronymic, TRUE)
        i == validate_employee_id(employee_id)
        s == validate_salary(salary)
    IN  IF f.ok /\ l.ok /\ p.ok /\ i.ok /\ s.ok
        THEN Ok([employee_id |-> i.val, first_name |-> f.val, last_name |-> l.val,
                 patronymic |-> p.val, salary |-> s.val])
        ELSE Fail

\* Employee(data) for a mapping with the five keys of a stored record.
EmployeeFromDict(data) ==
    NewEmployee(data.employee_id, data.first_name, data.last_name,
                data.patronymic, data.salary)

\* Employee.short_info(): the id and the salary, formatted.
short_info(e) == [ID |-> e.employee_id, Salary |-> e.salary]

(***************************************************************************)
(* Employee of src/task3/models/employee.py: the passport and the          *)
(* construction paths. A passport text is the sequence of its characters.  *)
(***************************************************************************)
Digits == {"0", "1", "2", "3", "4", "5", "6", "7", "8", "9"}
Whitespace == {" ", "\t"}

NoPassport == [kind |-> "none", chars |-> <<>>]
Text(chars) == [kind |-> "str", chars |-> chars]

\* str.strip(): leading and trailing whitespace removed
RECURSIVE StripLeft(_)
StripLeft(cs) ==
    IF cs # <<>> /\ Head(cs) \in Whitespace THEN StripLeft(Tail(cs)) ELSE cs
RECURSIVE StripRight(_)
StripRight(cs) ==
    IF cs # <<>> /\ cs[Len(cs)] \in Whitespace
    THEN StripRight(SubSeq(cs, 1, Len(cs) - 1)) ELSE cs
StripChars(cs) == StripRight(StripLeft(cs))

AllDigits(cs, from, to) == \A i \in from..to : cs[i] \in Digits

\* re.match(r'^\d{10}$', passport)
Pattern1(cs) == Len(cs) = 10 /\ AllDigits(cs, 1, 10)
\* re.match(r'^\d{4}\s\d{6}$', passport)
Pattern2(cs) ==
    Len(cs) = 11 /\ AllDigits(cs, 1, 4) /\ cs[5] \in Whitespace /\ AllDigits(cs, 6, 11)

\* passport.replace(' ', '')
WithoutSpaces(cs) == SelectSeq(cs, LAMBDA c : c # " ")

\* a validate_passport that returns the second form as it was written
validate_passport_as_written(passport) ==
    IF passport.kind # "str" THEN Fail
    ELSE LET stripped == StripChars(passport.chars)
         IN  IF Pattern1(stripped) \/ Pattern2(stripped) THEN Ok(stripped) ELSE Fail

\* Employee.validate_passport
validate_passport(passport) ==
    IF passport.kind = "none" THEN Fail
    ELSE IF passport.kind # "str" THEN Fail
    ELSE LET stripped == StripChars(passport.chars)
         IN  IF Pattern1(stripped) THEN Ok(stripped)
             ELSE IF Pattern2(stripped) THEN Ok(WithoutSpaces(stripped))
             ELSE Fail

\* Person.__init__ and the three validators of Employee.__init__, in the
\* order every construction path runs them
Employee6(employee_id, first_name, last_name, patronymic, salary, passport) ==
    LET f == validate_name(first_name, FALSE)
        l == validate_name(last_name, FALSE)
        p == validate_name(patronymic, TRUE)
        i == validate_employee_id(employee_id)
        s == validate_salary(salary)
        d == validate_passport(passport)
    IN  IF f.ok /\ l.ok /\ p.ok /\ i.ok /\ s.ok /\ d.ok
        THEN Ok([employee_id |-> i.val, first_name |-> f.val, last_name |-> l.val,
                 patronymic |-> p.val, salary |-> s.val, passport |-> d.val])
        ELSE Fail

\* a mapping or a JSON object without the key "patronymic"
Absent == "<absent>"

\* Employee(data) for a dict, and for a string holding a JSON object:
\* data.get('patronymic') is None when the key is missing
EmployeeOfDict(a) ==
    Employee6(a.employee_id, a.first_name, a.last_name,
              IF a.patronymic = Absent THEN None ELSE a.patronymic, a.salary, a.passport)

\* Employee(data) for a list of six elements: str(data[3]) unless it is None
EmployeeOfList(a) ==
    Employee6(a.employee_id, a.first_name, a.last_name,
              IF a.patronymic = Absent THEN None ELSE a.patronymic, a.salary, a.passport)

\* Employee("id;first_name;last_name;patronymic;salary;passport"): every
\* group is stripped, an empty patronymic or passport group becomes None
EmployeeOfDelimited(a) ==
    LET text == IF a.patronymic \in {None, Absent} THEN "" ELSE a.patronymic
        pass == IF a.passport.kind = "str" THEN StripChars(a.passport.chars) ELSE <<>>
    IN  Employee6(a.employee_id, Strip(a.first_name), Strip(a.last_name),
                  IF Strip(text) = "" THEN None ELSE Strip(text), a.salary,
                  IF pass = <<>> THEN NoPassport ELSE Text(pass))

ConstructionPaths == {"positional", "dict", "json", "list", "delimited"}

EmployeeVia(path, a) ==
    CASE path = "positional" ->
           Employee6(a.employee_id, a.first_name, a.last_name, a.patronymic,
                     a.salary, a.passport)
      [] path \in {"dict", "json"} -> EmployeeOfDict(a)
      [] path = "list" -> EmployeeOfList(a)
      [] path = "delimited" -> EmployeeOfDelimited(a)

\* Employee.__eq__ between two employees
employee_eq(a, b) == a.passport = b.passport

(***************************************************************************)
(* Python list primitives.                                                 *)
(***************************************************************************)
Min2(a, b) == IF a < b THEN a ELSE b

\* max(emp.employee_id for emp in employees), for a non-empty list
RECURSIVE MaxEmployeeId(_)
MaxEmployeeId(emps) ==
    IF Len(emps) = 1 THEN emps[1].employee_id
    ELSE LET m == MaxEmployeeId(Tail(emps))
         IN  IF emps[1].employee_id > m THEN emps[1].employee_id ELSE m

\* for i, employee in enumerate(list): the first 1-based position holding
\* the id, 0 when there is none
RECURSIVE FindFrom(_, _, _)
FindFrom(emps, employee_id, i) ==
    IF i > Len(emps) THEN 0
    ELSE IF emps[i].employee_id = employee_id THEN i
    ELSE FindFrom(emps, employee_id, i + 1)

\* a lookup that falls back on the last position when the id is missing
IndexOfIdOrLast(emps, employee_id) ==
    IF FindFrom(emps, employee_id, 1) = 0 THEN Len(emps)
    ELSE FindFrom(emps, employee_id, 1)

IndexOfId(emps, employee_id) == FindFrom(emps, employee_id, 1)

\* del list[i] (i 1-based here)
DelAt(emps, i) == SubSeq(emps, 1, i - 1) \o SubSeq(emps, i + 1, Len(emps))

ValidSortFields == {"employee_id", "first_name", "last_name", "salary"}

\* key=lambda x: x.<field>, as a number that orders like the Python value
SortKey(e, field) ==
    CASE field = "employee_id" -> e.employee_id
      [] field = "first_name" -> NameOrd(e.first_name)
      [] field = "last_name" -> NameOrd(e.last_name)
      [] field = "salary" -> e.salary

\* a descending order that puts a later element before its equals
BeforeOrTied(x, y, field, reverse) ==
    IF reverse THEN SortKey(x, field) >= SortKey(y, field)
    ELSE SortKey(x, field) < SortKey(y, field)

\* x goes before y in list.sort(key, reverse)
Before(x, y, field, reverse) ==
    IF reverse THEN SortKey(x, field) > SortKey(y, field)
    ELSE SortKey(x, field) < SortKey(y, field)

\* insert x into a sorted list behind every element that is not after it
RECURSIVE InsertSorted(_, _, _, _)
InsertSorted(sorted, x, field, reverse) ==
    IF sorted = <<>> THEN <<x>>
    ELSE IF Before(x, Head(sorted), field, reverse) THEN <<x>> \o sorted
    ELSE <<Head(sorted)>> \o InsertSorted(Tail(sorted), x, field, reverse)

\* list.sort(key=..., reverse=...): stable, also with reverse=True
RECURSIVE SortFrom(_, _, _, _, _)
SortFrom(emps, i, acc, field, reverse) ==
    IF i > Len(emps) THEN acc
    ELSE SortFrom(emps, i + 1, InsertSorted(acc, emps[i], field, reverse), field, reverse)

ListSort(emps, field, reverse) == SortFrom(emps, 1, <<>>, field, reverse)

(***************************************************************************)
(* Results and operation records.                                          *)
(***************************************************************************)
Returned(kind, v) == [kind |-> kind, val |-> v]
Raised(exc) == [kind |-> exc, val |-> None]
NoResult == [kind |-> "nothing", val |-> None]

NoArgs == [id |-> 0]
NoOp == [name |-> "init", args |-> NoArgs]
Op(name, args) == [name |-> name, args |-> args]

(***************************************************************************)
(* File snapshot: EmployeeRepJson / EmployeeRepYaml.                       *)
(***************************************************************************)
MissingFile == [kind |-> "missing", items |-> <<>>]

\* a save_data that writes the last name under both name keys
SnapshotOneName(emps) ==
    [kind |-> "list",
     items |-> [i \in 1..Len(emps) |->
                  [employee_id |-> emps[i].employee_id,
                   first_name |-> emps[i].last_name,
                   last_name |-> emps[i].last_name,
                   patronymic |-> emps[i].patronymic,
                   salary |-> emps[i].salary]]]

\* save_data: one mapping per employee with the five stored keys, in list
\* order, written over the whole file
Snapshot(emps) ==
    [kind |-> "list",
     items |-> [i \in 1..Len(emps) |->
                  [employee_id |-> emps[i].employee_id,
                   first_name |-> emps[i].first_name,
                   last_name |-> emps[i].last_name,
                   patronymic |-> emps[i].patronymic,
                   salary |-> emps[i].salary]]]

\* _read_all: [Employee(item) for item in data]; a ValueError in any item
\* leaves the empty list; a missing file too
ReadAll(f) ==
    IF f.kind = "missing" THEN <<>>
    ELSE IF \A i \in 1..Len(f.items) : EmployeeFromDict(f.items[i]).ok
         THEN [i \in 1..Len(f.items) |-> EmployeeFromDict(f.items[i]).val]
         ELSE <<>>

\* Employee(item) for an item of a parsed document: a mapping holding the
\* required keys goes through the validators, anything else is ValueError
RequiredKeys == {"employee_id", "first_name", "last_name", "salary"}
EmployeeOfItem(item) ==
    IF DOMAIN item = RequiredKeys \cup {"patronymic"} THEN EmployeeFromDict(item)
    ELSE Fail

\* a load that keeps the items Employee accepts and drops the others
LoadItemsAccepted(items) ==
    LET accepted == SelectSeq(items, LAMBDA item : EmployeeOfItem(item).ok)
    IN  [i \in 1..Len(accepted) |-> EmployeeOfItem(accepted[i]).val]

\* [Employee(item) for item in data] for a document that is a list
LoadItems(items) ==
    IF \A i \in 1..Len(items) : EmployeeOfItem(items[i]).ok
    THEN [i \in 1..Len(items) |-> EmployeeOfItem(items[i]).val]
    ELSE <<>>

\* EmployeeRepJson._read_all as the constructor runs it: the list it leaves
\* in _employees, or the exception that leaves the constructor. json.load
\* raises JSONDecodeError on a syntax error (caught); iterating a null or a
\* number raises TypeError (not caught); iterating a string or a mapping
\* hands strings to Employee (ValueError, caught).
json_read_all(f) ==
    CASE f.kind = "missing" -> Returned("list", <<>>)
      [] f.kind = "syntax_error" -> Returned("list", <<>>)
      [] f.kind \in {"null", "number"} -> Raised("TypeError")
      [] f.kind \in {"string", "mapping"} -> Returned("list", <<>>)
      [] f.kind = "list" -> Returned("list", LoadItems(f.items))

\* EmployeeRepYaml._read_all: as the JSON reader, but a null document is
\* replaced by the empty list before the iteration
yaml_read_all(f) ==
    CASE f.kind = "missing" -> Returned("list", <<>>)
      [] f.kind = "syntax_error" -> Returned("list", <<>>)
      [] f.kind = "null" -> Returned("list", <<>>)
      [] f.kind = "number" -> Raised("TypeError")
      [] f.kind \in {"string", "mapping"} -> Returned("list", <<>>)
      [] f.kind = "list" -> Returned("list", LoadItems(f.items))

\* EmployeeRepJson.__init__ / EmployeeRepYaml.__init__ on the file
Construct(variant) ==
    LET r == IF variant = "json" THEN json_read_all(file) ELSE yaml_read_all(file)
    IN  /\ lastOp = NoOp
        /\ lastOp' = Op("construct", [id |-> 0, variant |-> variant])
        /\ result' = r
        /\ employees' = IF r.kind = "list" THEN r.val ELSE employees
        /\ UNCHANGED <<file, store, serial, issued, observers, notified, loaded, peer, holderVars>>

(***************************************************************************)
(* EmployeeRep: the operations of a file backend.                          *)
(***************************************************************************)
\* EmployeeRep.get_by_id
get_by_id(emps, employee_id) ==
    LET i == IndexOfId(emps, employee_id)
    IN  IF i = 0 THEN Returned("none", None) ELSE Returned("entity", emps[i])

\* new_id taken from the last element instead of the greatest id
NewIdAfterLast(emps) == IF emps # <<>> THEN emps[Len(emps)].employee_id + 1 ELSE 1

\* new_id taken from the length of the list
NewIdByCount(emps) == Len(emps) + 1

\* new_id of add_employee
NewId(emps) == IF emps # <<>> THEN MaxEmployeeId(emps) + 1 ELSE 1

\* EmployeeRep.add_employee
AddEmployee(first_name, last_name, salary, patronymic) ==
    LET new_id == NewId(employees)
        made == NewEmployee(new_id, first_name, last_name, patronymic, salary)
    IN  /\ Len(employees) < MaxLen
        /\ new_id <= MaxId
        /\ lastOp' = Op("add", [first_name |-> first_name, last_name |-> last_name,
                                salary |-> salary, patronymic |-> patronymic])
        /\ IF made.ok
           THEN /\ employees' = Append(employees, made.val)
                /\ file' = Snapshot(employees')
                /\ result' = Returned("entity", made.val)
                /\ issued' = issued \cup {made.val.employee_id}
           ELSE /\ result' = Raised("ValueError")
                /\ UNCHANGED <<employees, file, issued>>
        /\ UNCHANGED <<store, serial, observers, notified, loaded, peer, holderVars>>

\* update_employee without the valid_fields test: employee_id is assigned too
SetFieldAny(e, kw) ==
    CASE kw.field = "salary" ->
           LET s == validate_salary(kw.ival)
           IN  IF s.ok THEN Ok([e EXCEPT !.salary = s.val]) ELSE Fail
      [] kw.field = "first_name" ->
           LET v == validate_name(kw.sval, FALSE)
           IN  IF v.ok THEN Ok([e EXCEPT !.first_name = v.val]) ELSE Fail
      [] kw.field = "employee_id" -> Ok([e EXCEPT !.employee_id = kw.ival])
      [] OTHER -> Ok(e)

\* the property setters of Employee, applied by update_employee to one
\* keyword argument; an unrecognized field is skipped
SetField(e, kw) ==
    CASE kw.field = "salary" ->
           LET s == validate_salary(kw.ival)
           IN  IF s.ok THEN Ok([e EXCEPT !.salary = s.val]) ELSE Fail
      [] kw.field = "first_name" ->
           LET v == validate_name(kw.sval, FALSE)
           IN  IF v.ok THEN Ok([e EXCEPT !.first_name = v.val]) ELSE Fail
      [] kw.field = "last_name" ->
           LET v == validate_name(kw.sval, FALSE)
           IN  IF v.ok THEN Ok([e EXCEPT !.last_name = v.val]) ELSE Fail
      [] kw.field = "patronymic" ->
           LET v == validate_name(kw.sval, TRUE)
           IN  IF v.ok THEN Ok([e EXCEPT !.patronymic = v.val]) ELSE Fail
      [] OTHER -> Ok(e)

\* for field, value in kwargs.items(): the setters run in argument order on
\* the object itself; the first ValueError ends the loop with the earlier
\* assignments in place
RECURSIVE ApplyKwargs(_, _)
ApplyKwargs(e, kwargs) ==
    IF kwargs = <<>> THEN [ok |-> TRUE, val |-> e]
    ELSE LET r == SetField(e, Head(kwargs))
         IN  IF r.ok THEN ApplyKwargs(r.val, Tail(kwargs))
             ELSE [ok |-> FALSE, val |-> e]

\* EmployeeRep.update_employee
UpdateEmployee(employee_id, kwargs) ==
    LET i == IndexOfId(employees, employee_id)
        r == ApplyKwargs(employees[i], kwargs)
    IN  /\ lastOp' = Op("update", [id |-> employee_id, kwargs |-> kwargs])
        /\ IF i = 0
           THEN /\ result' = Returned("bool", FALSE)
                /\ UNCHANGED <<employees, file>>
           ELSE /\ employees' = [employees EXCEPT ![i] = r.val]
                /\ IF r.ok
                   THEN /\ file' = Snapshot(employees')
                        /\ result' = Returned("bool", TRUE)
                   ELSE /\ file' = file
                        /\ result' = Raised("ValueError")
        /\ UNCHANGED <<store, serial, issued, observers, notified, loaded, peer, holderVars>>

\* EmployeeRep.delete_employee
DeleteEmployee(employee_id) ==
    LET i == IndexOfId(employees, employee_id)
    IN  /\ lastOp' = Op("delete", [id |-> employee_id])
        /\ IF i = 0
           THEN /\ result' = Returned("bool", FALSE)
                /\ UNCHANGED <<employees, file>>
           ELSE /\ employees' = DelAt(employees, i)
                /\ file' = Snapshot(employees')
                /\ result' = Returned("bool", TRUE)
        /\ UNCHANGED <<store, serial, issued, observers, notified, loaded, peer, holderVars>>

\* what a save_data whose write raises IOError leaves on disk: the old
\* content when open() fails, a cut-off text when the dump fails. save_data
\* catches the error and prints it.
FailedWrite(f) == {f, [kind |-> "syntax_error", items |-> <<>>]}

\* EmployeeRep.add_employee when the write of save_data fails
AddEmployeeWriteFails(first_name, last_name, salary, patronymic) ==
    LET new_id == NewId(employees)
        made == NewEmployee(new_id, first_name, last_name, patronymic, salary)
    IN  /\ Len(employees) < MaxLen
        /\ new_id <= MaxId
        /\ made.ok
        /\ lastOp' = Op("add", [first_name |-> first_name, last_name |-> last_name,
                                salary |-> salary, patronymic |-> patronymic,
                                io |-> "IOError"])
        /\ employees' = Append(employees, made.val)
        /\ file' \in FailedWrite(file)
        /\ result' = Returned("entity", made.val)
        /\ issued' = issued \cup {made.val.employee_id}
        /\ UNCHANGED <<store, serial, observers, notified, loaded, peer, holderVars>>

\* EmployeeRep.update_employee when the write of save_data fails
UpdateEmployeeWriteFails(employee_id, kwargs) ==
    LET i == IndexOfId(employees, employee_id)
        r == ApplyKwargs(employees[i], kwargs)
    IN  /\ i # 0
        /\ r.ok
        /\ lastOp' = Op("update", [id |-> employee_id, kwargs |-> kwargs,
                                   io |-> "IOError"])
        /\ employees' = [employees EXCEPT ![i] = r.val]
        /\ file' \in FailedWrite(file)
        /\ result' = Returned("bool", TRUE)
        /\ UNCHANGED <<store, serial, issued, observers, notified, loaded, peer, holderVars>>

\* EmployeeRep.delete_employee when the write of save_data fails
DeleteEmployeeWriteFails(employee_id) ==
    LET i == IndexOfId(employees, employee_id)
    IN  /\ i # 0
        /\ lastOp' = Op("delete", [id |-> employee_id, io |-> "IOError"])
        /\ employees' = DelAt(employees, i)
        /\ file' \in FailedWrite(file)
        /\ result' = Returned("bool", TRUE)
        /\ UNCHANGED <<store, serial, issued, observers, notified, loaded, peer, holderVars>>

\* the list sort_by_field returns: a sorted copy of the list
SortedCopy(emps, field, reverse) == ListSort(emps, field, reverse)

\* what sort_by_field hands to save_data: self._employees
SortSaves(emps, sorted) == Snapshot(emps)

\* a sort made on self._employees itself
SortedInPlace(emps, sorted) == sorted

\* self._employees after the sort: employees_copy = self._employees.copy()
\* is what gets sorted
AfterSort(emps, sorted) == emps

\* EmployeeRep.sort_by_field
SortByField(field, reverse) ==
    /\ lastOp' = Op("sort", [field |-> field, reverse |-> reverse])
    /\ IF field \notin ValidSortFields
       THEN /\ result' = Raised("ValueError")
            /\ employees' = employees
            /\ file' = file
       ELSE /\ result' = Returned("list", SortedCopy(employees, field, reverse))
            /\ employees' = AfterSort(employees, result'.val)
            /\ file' = SortSaves(employees', result'.val)
    /\ UNCHANGED <<store, serial, issued, observers, notified, loaded, peer, holderVars>>

\* EmployeeRep.get_by_id as a call
GetById(employee_id) ==
    /\ lastOp' = Op("get_by_id", [id |-> employee_id])
    /\ result' = get_by_id(employees, employee_id)
    /\ UNCHANGED <<employees, file, store, serial, issued, observers, notified, loaded, peer, holderVars>>

\* EmployeeRep.get_count
GetCount ==
    /\ lastOp' = Op("count", NoArgs)
    /\ result' = Returned("int", Len(employees))
    /\ UNCHANGED <<employees, file, store, serial, issued, observers, notified, loaded, peer, holderVars>>

(***************************************************************************)
(* Paging: get_k_n_short_list of the two file backends and of the          *)
(* decorator.                                                              *)
(***************************************************************************)
\* list[i] for a Python index i: a negative index counts from the end, an
\* index outside -len..len-1 raises IndexError
IndexInRange(emps, i) == -Len(emps) <= i /\ i < Len(emps)
PyItem(emps, i) == IF i >= 0 THEN emps[i + 1] ELSE emps[Len(emps) + i + 1]

\* for i in range(start, stop): short_list.append(list[i])
RECURSIVE PageLoop(_, _, _, _)
PageLoop(emps, i, stop, acc) ==
    IF i >= stop THEN Returned("list", acc)
    ELSE IF ~IndexInRange(emps, i) THEN Raised("IndexError")
    ELSE PageLoop(emps, i + 1, stop, Append(acc, PyItem(emps, i)))

\* the page is refused one position early
PageRefusedEarly(start_index, emps) == start_index >= Len(emps) - 1

\* the page is refused only past the end
PageRefusedStrict(start_index, emps) == start_index > Len(emps)

\* the condition under which the page is refused: start_index >= len(list)
PageRefused(start_index, emps) == start_index >= Len(emps)

\* EmployeeRep.get_k_n_short_list of src/lab2/reps.py
get_k_n_short_list(emps, k, n) ==
    LET start_index == (n - 1) * k
        end_index == start_index + k
    IN  IF PageRefused(start_index, emps) THEN Raised("IndexError")
        ELSE PageLoop(emps, start_index, Min2(end_index, Len(emps)), <<>>)

\* the entry src/reps.py puts into a page for one employee
ShortEntry(e) == [employee_id |-> e.employee_id, short_info |-> short_info(e)]

\* EmployeeRep.get_k_n_short_list of src/reps.py
get_k_n_short_list_root(emps, k, n) ==
    LET start_index == (n - 1) * k
        end_index == start_index + k
        page == PageLoop(emps, start_index, Min2(end_index, Len(emps)), <<>>)
    IN  IF PageRefused(start_index, emps) THEN Returned("list", <<>>)
        ELSE IF page.kind = "list"
             THEN Returned("list", [i \in 1..Len(page.val) |-> ShortEntry(page.val[i])])
             ELSE page

\* the predicates handed to the decorator as filter_func
FilterInputs == {"none", "salary_positive"}
Passes(filter_func, e) == filter_func = "salary_positive" => e.salary > 0

\* [emp for emp in employees_list if filter_func(emp)]
RECURSIVE Filtered(_, _)
Filtered(emps, filter_func) ==
    IF emps = <<>> THEN <<>>
    ELSE IF Passes(filter_func, Head(emps))
         THEN <<Head(emps)>> \o Filtered(Tail(emps), filter_func)
         ELSE Filtered(Tail(emps), filter_func)

\* "if sort_field:" - None and the empty string are falsy
Truthy(sort_field) == sort_field # None /\ sort_field # ""

\* EmployeeRepDecorator.get_k_n_short_list of src/lab2/reps.py over a file
\* repository holding emps
decorator_get_k_n_short_list(emps, k, n, filter_func, sort_field, reverse) ==
    LET whole == get_k_n_short_list(emps, Len(emps), 1)
        kept == IF filter_func # "none" THEN Filtered(whole.val, filter_func)
                ELSE whole.val
        employees_list == IF Truthy(sort_field) THEN ListSort(kept, sort_field, reverse)
                          ELSE kept
        start_index == (n - 1) * k
        end_index == start_index + k
    IN  IF whole.kind # "list" THEN whole
        ELSE IF Truthy(sort_field) /\ sort_field \notin ValidSortFields
             THEN Raised("ValueError")
        ELSE IF start_index >= Len(employees_list) THEN Returned("list", <<>>)
        ELSE PageLoop(employees_list, start_index,
                      Min2(end_index, Len(employees_list)), <<>>)

PageArgs(k, n) == [k |-> k, n |-> n]

GetPageLab2(k, n) ==
    /\ lastOp = NoOp
    /\ lastOp' = Op("get_page_lab2", PageArgs(k, n))
    /\ result' = get_k_n_short_list(employees, k, n)
    /\ UNCHANGED <<employees, file, store, serial, issued, observers, notified, loaded, peer, holderVars>>

GetPageRoot(k, n) ==
    /\ lastOp = NoOp
    /\ lastOp' = Op("get_page_root", PageArgs(k, n))
    /\ result' = get_k_n_short_list_root(employees, k, n)
    /\ UNCHANGED <<employees, file, store, serial, issued, observers, notified, loaded, peer, holderVars>>

DecoratorGetPage(k, n, filter_func, sort_field, reverse) ==
    /\ lastOp = NoOp
    /\ lastOp' = Op("decorator_get_page",
                    [k |-> k, n |-> n, filter_func |-> filter_func,
                     field |-> sort_field, reverse |-> reverse])
    /\ result' = decorator_get_k_n_short_list(employees, k, n, filter_func,
                                              sort_field, reverse)
    /\ UNCHANGED <<employees, file, store, serial, issued, observers, notified, loaded, peer, holderVars>>

\* EmployeeRepDecorator.get_count of src/lab2/reps.py
decorator_get_count(emps, filter_func) ==
    LET whole == get_k_n_short_list(emps, Len(emps), 1)
    IN  IF whole.kind # "list" THEN whole
        ELSE IF filter_func # "none"
             THEN Returned("int", Len(Filtered(whole.val, filter_func)))
             ELSE Returned("int", Len(whole.val))

\* EmployeeRepFileDecorator.get_k_n_short_list of src/reps.py on the list
\* read_all() returned
file_decorator_get_k_n_short_list(emps, k, n, filter_func, sort_field, reverse) ==
    LET kept == IF filter_func # "none" THEN Filtered(emps, filter_func) ELSE emps
        sorted == IF Truthy(sort_field) THEN ListSort(kept, sort_field, reverse)
                  ELSE kept
        start_index == (n - 1) * k
        end_index == start_index + k
        page == PageLoop(sorted, start_index, Min2(end_index, Len(sorted)), <<>>)
    IN  IF Truthy(sort_field) /\ sort_field \notin ValidSortFields
        THEN Raised("ValueError")
        ELSE IF start_index >= Len(sorted) THEN Returned("list", <<>>)
        ELSE IF page.kind = "list"
             THEN Returned("list", [i \in 1..Len(page.val) |-> ShortEntry(page.val[i])])
             ELSE page

\* EmployeeRepFileDecorator.get_count of src/reps.py on the list read_all()
\* returned
file_decorator_get_count(emps, filter_func) ==
    IF filter_func # "none" THEN Returned("int", Len(Filtered(emps, filter_func)))
    ELSE Returned("int", Len(emps))

DecoratorArgs(k, n, filter_func, sort_field, reverse) ==
    [k |-> k, n |-> n, filter_func |-> filter_func, field |-> sort_field,
     reverse |-> reverse]

\* EmployeeRepDecorator.get_k_n_short_list as a call on a live repository
DecoratorPage(k, n, filter_func, sort_field, reverse) ==
    /\ lastOp' = Op("decorator_get_page",
                    DecoratorArgs(k, n, filter_func, sort_field, reverse))
    /\ result' = decorator_get_k_n_short_list(employees, k, n, filter_func,
                                              sort_field, reverse)
    /\ UNCHANGED <<employees, file, store, serial, issued, observers, notified, loaded, peer, holderVars>>

\* EmployeeRepDecorator.get_count as a call
DecoratorCount(filter_func) ==
    /\ lastOp' = Op("decorator_count", [id |-> 0, filter_func |-> filter_func])
    /\ result' = decorator_get_count(employees, filter_func)
    /\ UNCHANGED <<employees, file, store, serial, issued, observers, notified, loaded, peer, holderVars>>

\* EmployeeRepFileDecorator.get_k_n_short_list as a call: read_all() runs
\* _load_data(), which replaces the list of the repository by the records
\* of the file, and hands a copy to the decorator
FileDecoratorPage(k, n, filter_func, sort_field, reverse) ==
    /\ lastOp' = Op("file_decorator_get_page",
                    DecoratorArgs(k, n, filter_func, sort_field, reverse))
    /\ employees' = ReadAll(file)
    /\ result' = file_decorator_get_k_n_short_list(employees', k, n, filter_func,
                                                   sort_field, reverse)
    /\ UNCHANGED <<file, store, serial, issued, observers, notified, loaded, peer, holderVars>>

\* EmployeeRepFileDecorator.get_count as a call
FileDecoratorCount(filter_func) ==
    /\ lastOp' = Op("file_decorator_count", [id |-> 0, filter_func |-> filter_func])
    /\ employees' = ReadAll(file)
    /\ result' = file_decorator_get_count(employees', filter_func)
    /\ UNCHANGED <<file, store, serial, issued, observers, notified, loaded, peer, holderVars>>

\* sort_by_field of a file backend, called once on the drawn collection
SortOnce(field, reverse) == lastOp = NoOp /\ SortByField(field, reverse)

(***************************************************************************)
(* EmployeeRepDB: table employees, and EmployeeRepDBAdapter of             *)
(* src/lab2/reps.py, whose mirror is the variable employees.               *)
(***************************************************************************)
Row(employee_id, first_name, last_name, patronymic, salary) ==
    [employee_id |-> employee_id, first_name |-> first_name, last_name |-> last_name,
     patronymic |-> patronymic, salary |-> salary]

\* EmployeeRepDB.get_all_employees: SELECT ... ORDER BY employee_id, then
\* Employee(employee_data) per row; a row the constructor rejects raises
\* ValueError, which "except psycopg2.Error" does not catch
get_all_employees(st) ==
    IF \A i \in 1..Len(st) : EmployeeFromDict(st[i]).ok
    THEN Returned("list", [i \in 1..Len(st) |-> EmployeeFromDict(st[i]).val])
    ELSE Raised("ValueError")

Db(st, ser, res) == [store |-> st, serial |-> ser, result |-> res]

\* EmployeeRepDB.add_employee: INSERT ... RETURNING and commit, then
\* Employee(employee_data). The sequence value is consumed also when
\* CHECK (salary >= 0) rejects the row (psycopg2.Error: returns None).
db_add_employee(st, ser, first_name, last_name, salary, patronymic) ==
    LET row == Row(ser + 1, first_name, last_name, patronymic, salary)
        made == EmployeeFromDict(row)
    IN  IF salary < 0 THEN Db(st, ser + 1, Returned("none", None))
        ELSE Db(Append(st, row), ser + 1,
                IF made.ok THEN Returned("entity", made.val) ELSE Raised("ValueError"))

RecognizedFields == {"first_name", "last_name", "patronymic", "salary"}
IsRecognized(kw) == kw.field \in RecognizedFields

\* SET field = value for one recognized keyword argument
SetColumn(row, kw) ==
    CASE kw.field = "salary" -> [row EXCEPT !.salary = kw.ival]
      [] kw.field = "first_name" -> [row EXCEPT !.first_name = kw.sval]
      [] kw.field = "last_name" -> [row EXCEPT !.last_name = kw.sval]
      [] kw.field = "patronymic" -> [row EXCEPT !.patronymic = kw.sval]

RECURSIVE SetColumns(_, _)
SetColumns(row, kws) ==
    IF kws = <<>> THEN row ELSE SetColumns(SetColumn(row, Head(kws)), Tail(kws))

\* EmployeeRepDB.update_employee: UPDATE employees SET ... WHERE employee_id
\* = id; no recognized field returns False, a negative salary fails the
\* CHECK (psycopg2.Error: returns False), else rowcount > 0
db_update_employee(st, employee_id, kwargs) ==
    LET updates == SelectSeq(kwargs, IsRecognized)
        i == IndexOfId(st, employee_id)
    IN  IF updates = <<>> THEN [store |-> st, result |-> FALSE]
        ELSE IF i = 0 THEN [store |-> st, result |-> FALSE]
        ELSE IF SetColumns(st[i], updates).salary < 0 THEN [store |-> st, result |-> FALSE]
        ELSE [store |-> [st EXCEPT ![i] = SetColumns(st[i], updates)], result |-> TRUE]

\* EmployeeRepDB.delete_employee
db_delete_employee(st, employee_id) ==
    LET i == IndexOfId(st, employee_id)
    IN  IF i = 0 THEN [store |-> st, result |-> FALSE]
        ELSE [store |-> DelAt(st, i), result |-> TRUE]

\* EmployeeRepDB.get_k_n_short_list: ORDER BY employee_id LIMIT k OFFSET
\* (n-1)*k; a negative LIMIT or OFFSET is a psycopg2.Error (returns [])
db_get_k_n_short_list(st, k, n) ==
    LET offset == (n - 1) * k
        rows == SubSeq(st, offset + 1, Min2(offset + k, Len(st)))
    IN  IF k < 0 \/ offset < 0 THEN Returned("list", <<>>)
        ELSE get_all_employees(rows)

\* EmployeeRepDBAdapter.add_employee
AdapterAdd(first_name, last_name, salary, patronymic) ==
    LET r == db_add_employee(store, serial, first_name, last_name, salary, patronymic)
        all == get_all_employees(r.store)
    IN  /\ serial < MaxSerial
        /\ lastOp' = Op("add", [first_name |-> first_name, last_name |-> last_name,
                                salary |-> salary, patronymic |-> patronymic])
        /\ store' = r.store
        /\ serial' = r.serial
        /\ IF r.result.kind = "entity"
           THEN IF all.kind = "list"
                THEN /\ employees' = all.val
                     /\ result' = r.result
                     /\ issued' = issued \cup {r.result.val.employee_id}
                ELSE /\ result' = all
                     /\ UNCHANGED <<employees, issued>>
           ELSE /\ result' = r.result
                /\ UNCHANGED <<employees, issued>>
        /\ UNCHANGED <<file, observers, notified, loaded, peer, holderVars>>

\* _read_all after a successful statement: the mirror is replaced by the
\* rows, or ValueError leaves it as it was
Reload(st, value) ==
    LET all == get_all_employees(st)
    IN  IF all.kind = "list"
        THEN employees' = all.val /\ result' = value
        ELSE employees' = employees /\ result' = all

\* EmployeeRepDBAdapter.update_employee
AdapterUpdate(employee_id, kwargs) ==
    LET r == db_update_employee(store, employee_id, kwargs)
    IN  /\ lastOp' = Op("update", [id |-> employee_id, kwargs |-> kwargs])
        /\ store' = r.store
        /\ IF r.result THEN Reload(r.store, Returned("bool", TRUE))
           ELSE employees' = employees /\ result' = Returned("bool", FALSE)
        /\ UNCHANGED <<file, serial, issued, observers, notified, loaded, peer, holderVars>>

\* EmployeeRepDBAdapter.delete_employee
AdapterDelete(employee_id) ==
    LET r == db_delete_employee(store, employee_id)
    IN  /\ lastOp' = Op("delete", [id |-> employee_id])
        /\ store' = r.store
        /\ IF r.result THEN Reload(r.store, Returned("bool", TRUE))
           ELSE employees' = employees /\ result' = Returned("bool", FALSE)
        /\ UNCHANGED <<file, serial, issued, observers, notified, loaded, peer, holderVars>>

\* EmployeeRepDBAdapter.get_k_n_short_list
AdapterGetPage(k, n) ==
    /\ lastOp' = Op("get_page", PageArgs(k, n))
    /\ result' = db_get_k_n_short_list(store, k, n)
    /\ UNCHANGED <<employees, file, store, serial, issued, observers, notified, loaded, peer, holderVars>>

\* the list EmployeeRepDBAdapter.sort_by_field returns
adapter_sort_by_field(st, field, reverse) ==
    LET all == get_all_employees(st)
    IN  IF field \notin ValidSortFields THEN Raised("ValueError")
        ELSE IF all.kind # "list" THEN all
        ELSE Returned("list", ListSort(all.val, field, reverse))

\* EmployeeRepDBAdapter.sort_by_field
AdapterSort(field, reverse) ==
    /\ lastOp' = Op("adapter_sort", [field |-> field, reverse |-> reverse])
    /\ result' = adapter_sort_by_field(store, field, reverse)
    /\ UNCHANGED <<employees, file, store, serial, issued, observers, notified, loaded, peer, holderVars>>

AdapterSortOnce(field, reverse) == lastOp = NoOp /\ AdapterSort(field, reverse)

(***************************************************************************)
(* Subject and ObservableEmployeeRepository of src/task3/models: the       *)
(* observer list and the notifications of the wrapper around a repository. *)
(* The observers are MainControllerObserver objects, whose update prints   *)
(* the event and returns.                                                  *)
(***************************************************************************)
Observers == {"o1", "o2", "o3"}

Attached(obs) == {obs[i] : i \in 1..Len(obs)}

\* an attach without the membership test
attach_unchecked(obs, observer) == Append(obs, observer)

\* Subject.attach
attach(obs, observer) ==
    IF observer \notin Attached(obs) THEN Append(obs, observer) ELSE obs

\* list.remove(x): the first element equal to x is taken out
RECURSIVE RemoveFirst(_, _)
RemoveFirst(obs, observer) ==
    IF obs = <<>> THEN <<>>
    ELSE IF Head(obs) = observer THEN Tail(obs)
    ELSE <<Head(obs)>> \o RemoveFirst(Tail(obs), observer)

\* Subject.detach
detach(obs, observer) ==
    IF observer \in Attached(obs) THEN RemoveFirst(obs, observer) ELSE obs

\* a notify that walks the list from its end
notify_backwards(obs, event_type, data) ==
    [i \in 1..Len(obs) |->
        [observer |-> obs[Len(obs) + 1 - i], event_type |-> event_type, data |-> data]]

\* Subject.notify: observer.update(event_type, data) for each observer in
\* list order; the sequence of the calls made
notify(obs, event_type, data) ==
    [i \in 1..Len(obs) |-> [observer |-> obs[i], event_type |-> event_type, data |-> data]]

Attach(observer) ==
    /\ lastOp' = Op("attach", [id |-> 0, observer |-> observer])
    /\ observers' = attach(observers, observer)
    /\ result' = Returned("none", None)
    /\ notified' = <<>>
    /\ UNCHANGED <<employees, file, store, serial, issued, loaded, peer, holderVars>>

Detach(observer) ==
    /\ lastOp' = Op("detach", [id |-> 0, observer |-> observer])
    /\ observers' = detach(observers, observer)
    /\ result' = Returned("none", None)
    /\ notified' = <<>>
    /\ UNCHANGED <<employees, file, store, serial, issued, loaded, peer, holderVars>>

\* ObservableEmployeeRepository.add_employee over a file backend: the inner
\* add_employee, then employee_added with the fields of the new employee
ObservableAddEmployee(first_name, last_name, salary, patronymic) ==
    LET new_id == NewId(employees)
        made == NewEmployee(new_id, first_name, last_name, patronymic, salary)
    IN  /\ Len(employees) < MaxLen
        /\ new_id <= MaxId
        /\ lastOp' = Op("observable_add",
                        [first_name |-> first_name, last_name |-> last_name,
                         salary |-> salary, patronymic |-> patronymic])
        /\ IF made.ok
           THEN /\ employees' = Append(employees, made.val)
                /\ file' = Snapshot(employees')
                /\ result' = Returned("entity", made.val)
                /\ issued' = issued \cup {made.val.employee_id}
                /\ notified' = notify(observers, "employee_added", made.val)
           ELSE /\ result' = Raised("ValueError")
                /\ notified' = <<>>
                /\ UNCHANGED <<employees, file, issued>>
        /\ UNCHANGED <<store, serial, observers, loaded, peer, holderVars>>

\* ObservableEmployeeRepository.delete_employee over a file backend
ObservableDeleteEmployee(employee_id) ==
    LET i == IndexOfId(employees, employee_id)
    IN  /\ lastOp' = Op("observable_delete", [id |-> employee_id])
        /\ IF i = 0
           THEN /\ result' = Returned("bool", FALSE)
                /\ notified' = <<>>
                /\ UNCHANGED <<employees, file>>
           ELSE /\ employees' = DelAt(employees, i)
                /\ file' = Snapshot(employees')
                /\ result' = Returned("bool", TRUE)
                /\ notified' = notify(observers, "employee_deleted",
                                      [employee_id |-> employee_id])
        /\ UNCHANGED <<store, serial, issued, observers, loaded, peer, holderVars>>

\* ObservableEmployeeRepository.get_all_employees: the page of get_count()
\* entities, or the empty list of an empty repository
observable_get_all_employees(emps) ==
    IF Len(emps) > 0 THEN get_k_n_short_list(emps, Len(emps), 1).val ELSE <<>>

\* the employees_loaded events among the update calls n, by receiver
Heard(n) ==
    {[observer |-> n[i].observer, count |-> n[i].data.count] :
        i \in {j \in 1..Len(n) : n[j].event_type = "employees_loaded"}}

\* ObservableEmployeeRepository.__init__ around a constructed file backend:
\* Subject.__init__ leaves the observer list empty, then employee_loaded
\* announces the number of employees
ObservableConstruct ==
    /\ lastOp = NoOp
    /\ lastOp' = Op("observable_construct", NoArgs)
    /\ observers' = <<>>
    /\ notified' = notify(observers', "employees_loaded",
                          [count |-> Len(observable_get_all_employees(employees))])
    /\ loaded' = loaded \cup Heard(notified')
    /\ result' = Returned("none", None)
    /\ UNCHANGED <<employees, file, store, serial, issued, peer, holderVars>>

\* the data of an employee_updated event
UpdatedData(e, kwargs) ==
    [employee_id |-> e.employee_id, first_name |-> e.first_name,
     last_name |-> e.last_name, patronymic |-> e.patronymic, salary |-> e.salary,
     updated_fields |-> [i \in 1..Len(kwargs) |-> kwargs[i].field]]

\* ObservableEmployeeRepository.update_employee over a file backend: the
\* inner update_employee; when it returns True the inner get_by_id and
\* employee_updated
ObservableUpdateEmployee(employee_id, kwargs) ==
    LET i == IndexOfId(employees, employee_id)
        r == ApplyKwargs(employees[i], kwargs)
    IN  /\ lastOp' = Op("observable_update", [id |-> employee_id, kwargs |-> kwargs])
        /\ IF i = 0
           THEN /\ result' = Returned("bool", FALSE)
                /\ notified' = <<>>
                /\ UNCHANGED <<employees, file>>
           ELSE /\ employees' = [employees EXCEPT ![i] = r.val]
                /\ IF r.ok
                   THEN /\ file' = Snapshot(employees')
                        /\ result' = Returned("bool", TRUE)
                        /\ notified' =
                             LET found == get_by_id(employees', employee_id)
                             IN  IF found.kind = "entity"
                                 THEN notify(observers, "employee_updated",
                                             UpdatedData(found.val, kwargs))
                                 ELSE <<>>
                   ELSE /\ file' = file
                        /\ result' = Raised("ValueError")
                        /\ notified' = <<>>
        /\ UNCHANGED <<store, serial, issued, observers, loaded, peer, holderVars>>

\* Person.get_full_name: last name, first name and the patronymic if any
get_full_name(e) ==
    IF e.patronymic # None THEN <<e.last_name, e.first_name, e.patronymic>>
    ELSE <<e.last_name, e.first_name>>

\* ObservableEmployeeRepository.get_by_id
ObservableGetById(employee_id) ==
    /\ lastOp' = Op("observable_get_by_id", [id |-> employee_id])
    /\ result' = get_by_id(employees, employee_id)
    /\ notified' = IF result'.kind = "entity"
                   THEN notify(observers, "employee_viewed",
                               [employee_id |-> result'.val.employee_id,
                                full_name |-> get_full_name(result'.val)])
                   ELSE <<>>
    /\ UNCHANGED <<employees, file, store, serial, issued, observers, loaded, peer, holderVars>>

\* ObservableEmployeeRepository.get_k_n_short_list
ObservableGetPage(k, n) ==
    /\ lastOp' = Op("observable_get_page", PageArgs(k, n))
    /\ result' = get_k_n_short_list(employees, k, n)
    /\ notified' = <<>>
    /\ UNCHANGED <<employees, file, store, serial, issued, observers, loaded, peer, holderVars>>

\* ObservableEmployeeRepository.get_count
ObservableGetCount ==
    /\ lastOp' = Op("observable_count", NoArgs)
    /\ result' = Returned("int", Len(employees))
    /\ notified' = <<>>
    /\ UNCHANGED <<employees, file, store, serial, issued, observers, loaded, peer, holderVars>>

\* ObservableEmployeeRepository.sort_by_field
ObservableSortByField(field, reverse) ==
    /\ lastOp' = Op("observable_sort", [field |-> field, reverse |-> reverse])
    /\ IF field \notin ValidSortFields
       THEN /\ result' = Raised("ValueError")
            /\ file' = file
       ELSE /\ result' = Returned("list", SortedCopy(employees, field, reverse))
            /\ file' = SortSaves(employees, result'.val)
    /\ notified' = <<>>
    /\ UNCHANGED <<employees, store, serial, issued, observers, loaded, peer, holderVars>>

(***************************************************************************)
(* Employee objects: construction, the patronymic setter, comparison.      *)
(***************************************************************************)
\* Employee(...) through one of its construction paths
ConstructEmployee(path, a) ==
    LET made == EmployeeVia(path, a)
    IN  /\ lastOp = NoOp
        /\ lastOp' = Op("construct_employee", [id |-> 0, path |-> path, given |-> a])
        /\ result' = IF made.ok THEN Returned("entity", made.val) ELSE Raised("ValueError")
        /\ employees' = IF made.ok THEN <<made.val>> ELSE <<>>
        /\ UNCHANGED <<file, store, serial, issued, observers, notified, loaded, peer, holderVars>>

\* employee.patronymic = value on the employee constructed before
SetPatronymic(value) ==
    LET v == validate_name(value, TRUE)
    IN  /\ lastOp.name = "construct_employee"
        /\ Len(employees) = 1
        /\ lastOp' = Op("set_patronymic", [id |-> 0, value |-> value])
        /\ IF v.ok
           THEN /\ employees' = <<[employees[1] EXCEPT !.patronymic = v.val]>>
                /\ result' = Returned("none", None)
           ELSE /\ employees' = employees
                /\ result' = Raised("ValueError")
        /\ UNCHANGED <<file, store, serial, issued, observers, notified, loaded, peer, holderVars>>

\* Employee(...) == Employee(...) for two positional constructions
CompareEmployees(a, b) ==
    LET left == EmployeeVia("positional", a)
        right == EmployeeVia("positional", b)
    IN  /\ lastOp = NoOp
        /\ lastOp' = Op("compare", [id |-> 0, left |-> a, right |-> b])
        /\ IF left.ok /\ right.ok
           THEN /\ employees' = <<left.val, right.val>>
                /\ result' = Returned("bool", employee_eq(left.val, right.val))
           ELSE /\ employees' = <<>>
                /\ result' = Raised("ValueError")
        /\ UNCHANGED <<file, store, serial, issued, observers, notified, loaded, peer, holderVars>>

(***************************************************************************)
(* Spec: one file-backend repository instance.                             *)
(***************************************************************************)
Plain(employee_id) ==
    [employee_id |-> employee_id, first_name |-> "A", last_name |-> "A",
     patronymic |-> None, salary |-> 0]

\* the files a repository is constructed from: none, an empty list, lists
\* whose ids are distinct but not in order
InitFiles ==
    {MissingFile} \cup
    {[kind |-> "list", items |-> [i \in 1..Len(ids) |-> Plain(ids[i])]] :
        ids \in {<<>>, <<1>>, <<2, 1>>, <<3, 1>>}}

Kw(field, sval, ival) == [field |-> field, sval |-> sval, ival |-> ival]

\* the keyword arguments update_employee is called with
KwargsInputs ==
    {<<>>, <<Kw("passport", "X", 0)>>}
    \cup {<<Kw("salary", None, s)>> : s \in SalaryInputs}
    \cup {<<Kw("first_name", v, 0)>> : v \in {"B", "1"}}
    \cup {<<Kw("first_name", "B", 0), Kw("salary", None, -1)>>,
          <<Kw("salary", None, 1), Kw("first_name", "1", 0)>>,
          <<Kw("employee_id", None, MaxId), Kw("salary", None, 1)>>}

SortFieldInputs == ValidSortFields \cup {"passport", ""}

Init ==
    /\ file \in InitFiles
    /\ employees = ReadAll(file)
    /\ store = <<>>
    /\ serial = 0
    /\ lastOp = NoOp
    /\ result = NoResult
    /\ issued = {}
    /\ observers = <<>>
    /\ notified = <<>>
    /\ loaded = {}
    /\ peer = <<>>
    /\ NoHolder

Next ==
    \/ \E f \in NameInputs, s \in SalaryInputs : AddEmployee(f, "A", s, None)
    \/ \E id \in 1..MaxId, kw \in KwargsInputs : UpdateEmployee(id, kw)
    \/ \E id \in 1..MaxId : DeleteEmployee(id)
    \/ \E field \in {"salary", "first_name", "passport"}, reverse \in BOOLEAN :
          SortByField(field, reverse)
    \/ \E id \in 1..MaxId : GetById(id)
    \/ GetCount

Spec == Init /\ [][Next]_vars

(***************************************************************************)
(* SpecRead: the paging and sorting functions, each applied once to a      *)
(* collection drawn from the valid employees.                              *)
(***************************************************************************)
\* three employees' worth of field values: every sort field has a tie and a
\* difference among them
Profiles ==
    {[first_name |-> "A", last_name |-> "A", salary |-> 1],
     [first_name |-> "A", last_name |-> "B", salary |-> 0],
     [first_name |-> "B", last_name |-> "A", salary |-> 0]}

IdLists ==
    {ids \in UNION {[1..len -> 1..MaxDrawn] : len \in 0..MaxDrawn} :
        \A i, j \in DOMAIN ids : i # j => ids[i] # ids[j]}

DrawnCollections ==
    UNION {{[i \in DOMAIN ids |->
               [employee_id |-> ids[i], first_name |-> ps[i].first_name,
                last_name |-> ps[i].last_name, patronymic |-> None,
                salary |-> ps[i].salary]] :
            ps \in [DOMAIN ids -> Profiles]} : ids \in IdLists}

\* the rows of the table holding the employees emps: ordered by id
TableOf(emps) ==
    [i \in 1..Len(emps) |->
        LET j == CHOOSE j \in 1..Len(emps) :
                   Cardinality({h \in 1..Len(emps) :
                                  emps[h].employee_id < emps[j].employee_id}) = i - 1
        IN  Snapshot(emps).items[j]]

InitRead ==
    /\ employees \in DrawnCollections
    /\ file = Snapshot(employees)
    /\ store = TableOf(employees)
    /\ serial = Len(employees)
    /\ lastOp = NoOp
    /\ result = NoResult
    /\ issued = {}
    /\ observers = <<>>
    /\ notified = <<>>
    /\ loaded = {}
    /\ peer = <<>>
    /\ NoHolder

PageSizes == (-1)..MaxK
PageIndexes == (-1)..MaxN
DecoratorSortFields == {None, "", "salary", "first_name", "passport"}

NextRead ==
    \/ \E k \in PageSizes, n \in PageIndexes : GetPageLab2(k, n)
    \/ \E k \in PageSizes, n \in PageIndexes : GetPageRoot(k, n)
    \/ \E k \in PageSizes, n \in PageIndexes, ff \in FilterInputs,
          sf \in DecoratorSortFields, reverse \in BOOLEAN :
          DecoratorGetPage(k, n, ff, sf, reverse)
    \/ \E field \in SortFieldInputs, reverse \in BOOLEAN : SortOnce(field, reverse)
    \/ \E field \in SortFieldInputs, reverse \in BOOLEAN : AdapterSortOnce(field, reverse)
    \/ \E ff \in FilterInputs : lastOp = NoOp /\ DecoratorCount(ff)
    \/ \E ff \in FilterInputs : lastOp = NoOp /\ FileDecoratorCount(ff)

SpecRead == InitRead /\ [][NextRead]_vars

(***************************************************************************)
(* SpecDB: one EmployeeRepDBAdapter (src/lab2/reps.py) over its table.     *)
(***************************************************************************)
InitDB ==
    /\ store = <<>>
    /\ serial = 0
    /\ employees = <<>>
    /\ file = MissingFile
    /\ lastOp = NoOp
    /\ result = NoResult
    /\ issued = {}
    /\ observers = <<>>
    /\ notified = <<>>
    /\ loaded = {}
    /\ peer = <<>>
    /\ NoHolder

NextDB ==
    \/ \E f \in {"A", "B", "1"}, s \in SalaryInputs : AdapterAdd(f, "A", s, None)
    \/ \E id \in 1..MaxSerial, kw \in KwargsInputs : AdapterUpdate(id, kw)
    \/ \E id \in 1..MaxSerial : AdapterDelete(id)
    \/ \E k \in 1..2, n \in 1..2 : AdapterGetPage(k, n)
    \/ \E field \in {"salary", "passport"}, reverse \in BOOLEAN : AdapterSort(field, reverse)
    \/ \E id \in 1..MaxSerial : GetById(id)
    \/ GetCount

SpecDB == InitDB /\ [][NextDB]_vars

(***************************************************************************)
(* SpecBoth: one repository instance that is either a file backend or the  *)
(* relational adapter, for the statements made about both.                 *)
(***************************************************************************)
\* the adapter keeps no snapshot file
NoFile == [kind |-> "none", items |-> <<>>]

OnFile == file # NoFile
OnStore == file = NoFile

InitBoth ==
    \/ Init
    \/ /\ store = <<>>
       /\ serial = 0
       /\ employees = <<>>
       /\ file = NoFile
       /\ lastOp = NoOp
       /\ result = NoResult
       /\ issued = {}
       /\ observers = <<>>
       /\ notified = <<>>
       /\ loaded = {}
       /\ peer = <<>>
       /\ NoHolder

\* keyword arguments without and with recognized fields, valid and invalid
BothKwargs ==
    {<<>>, <<Kw("passport", "X", 0)>>, <<Kw("first_name", "B", 0)>>,
     <<Kw("first_name", "1", 0)>>,
     <<Kw("salary", None, 1), Kw("first_name", "1", 0)>>,
     <<Kw("employee_id", None, MaxId), Kw("salary", None, 1)>>}

NextBoth ==
    \/ \E f \in {"A", "1"} : OnFile /\ AddEmployee(f, "A", 0, None)
    \/ \E id \in 1..MaxId, kw \in BothKwargs : OnFile /\ UpdateEmployee(id, kw)
    \/ \E id \in 1..MaxId : OnFile /\ DeleteEmployee(id)
    \/ \E f \in {"A", "1"} : OnStore /\ AdapterAdd(f, "A", 0, None)
    \/ \E id \in 1..MaxSerial, kw \in BothKwargs : OnStore /\ AdapterUpdate(id, kw)
    \/ \E id \in 1..MaxSerial : OnStore /\ AdapterDelete(id)

SpecBoth == InitBoth /\ [][NextBoth]_vars

(***************************************************************************)
(* SpecLoad: the construction of a JSON or YAML backend from a drawn file. *)
(***************************************************************************)
\* the items of a parsed list: two valid records, a record whose name fails
\* validation, a mapping without the required keys, a number
ItemInputs ==
    {Plain(1), Plain(2), [Plain(3) EXCEPT !.first_name = "1"],
     [employee_id |-> 1, first_name |-> "A"], [number |-> 5]}

\* the documents a file can hold
Documents ==
    {[kind |-> k, items |-> <<>>] :
        k \in {"missing", "syntax_error", "null", "number", "string", "mapping"}}
    \cup {[kind |-> "list", items |-> items] :
            items \in UNION {[1..len -> ItemInputs] : len \in 0..MaxItems}}

InitLoad ==
    /\ file \in Documents
    /\ employees = <<>>
    /\ store = <<>>
    /\ serial = 0
    /\ lastOp = NoOp
    /\ result = NoResult
    /\ issued = {}
    /\ observers = <<>>
    /\ notified = <<>>
    /\ loaded = {}
    /\ peer = <<>>
    /\ NoHolder

NextLoad == \E variant \in {"json", "yaml"} : Construct(variant)

SpecLoad == InitLoad /\ [][NextLoad]_vars

(***************************************************************************)
(* SpecIO: one file-backend repository instance whose writes can fail.     *)
(***************************************************************************)
NextIO ==
    \/ AddEmployee("A", "A", 0, None)
    \/ \E id \in 1..MaxId : UpdateEmployee(id, <<Kw("salary", None, 1)>>)
    \/ \E id \in 1..MaxId : DeleteEmployee(id)
    \/ AddEmployeeWriteFails("A", "A", 0, None)
    \/ \E id \in 1..MaxId : UpdateEmployeeWriteFails(id, <<Kw("salary", None, 1)>>)
    \/ \E id \in 1..MaxId : DeleteEmployeeWriteFails(id)

SpecIO == Init /\ [][NextIO]_vars

(***************************************************************************)
(* SpecObs: one ObservableEmployeeRepository around a file backend, with   *)
(* observers attaching and detaching between the calls.                    *)
(***************************************************************************)
\* the wrapper exists once its constructor has run
Constructed == lastOp # NoOp

\* keyword arguments that change a field, change nothing, and fail half-way
ObsKwargs ==
    {<<>>, <<Kw("salary", None, 1)>>,
     <<Kw("salary", None, 1), Kw("first_name", "1", 0)>>}

NextObs ==
    \/ ObservableConstruct
    \/ \E o \in Observers : Constructed /\ Attach(o)
    \/ \E o \in Observers : Constructed /\ Detach(o)
    \/ \E f \in {"A", "1"} : Constructed /\ ObservableAddEmployee(f, "A", 0, None)
    \/ \E id \in 1..MaxId : Constructed /\ ObservableDeleteEmployee(id)
    \/ \E id \in 1..MaxId, kw \in ObsKwargs :
          Constructed /\ ObservableUpdateEmployee(id, kw)
    \/ \E id \in 1..MaxId : Constructed /\ ObservableGetById(id)
    \/ Constructed /\ ObservableGetPage(1, 1)
    \/ Constructed /\ ObservableGetCount
    \/ \E field \in {"salary", "passport"} :
          Constructed /\ ObservableSortByField(field, FALSE)

SpecObs == Init /\ [][NextObs]_vars

(***************************************************************************)
(* SpecDec: one file-backend repository instance under add, update and     *)
(* delete, read through the decorators of src/lab2/reps.py and             *)
(* src/reps.py.                                                            *)
(***************************************************************************)
DecKwargs ==
    {<<Kw("salary", None, 1)>>, <<Kw("salary", None, 1), Kw("first_name", "1", 0)>>}

NextDec ==
    \/ AddEmployee("A", "A", 0, None)
    \/ \E id \in 1..MaxId, kw \in DecKwargs : UpdateEmployee(id, kw)
    \/ \E id \in 1..MaxId : DeleteEmployee(id)
    \/ \E k \in 1..2, n \in 1..2, ff \in FilterInputs, sf \in {None, "salary"} :
          DecoratorPage(k, n, ff, sf, FALSE)
    \/ \E ff \in FilterInputs : DecoratorCount(ff)
    \/ \E k \in 1..2, n \in 1..2, ff \in FilterInputs, sf \in {None, "salary"} :
          FileDecoratorPage(k, n, ff, sf, FALSE)
    \/ \E ff \in FilterInputs : FileDecoratorCount(ff)

SpecDec == Init /\ [][NextDec]_vars

(***************************************************************************)
(* SpecEntity: Employee objects constructed from drawn arguments, then     *)
(* compared or given a patronymic.                                         *)
(***************************************************************************)
Series == <<"1", "2", "3", "4">>
Number == <<"1", "2", "3", "4", "5", "6">>
OtherNumber == <<"1", "2", "3", "4", "5", "7">>

\* passports as callers supply them: the two forms, padded, with a tab or a
\* hyphen between series and number, a second passport, a short one, a
\* number instead of a text, none
PassportInputs ==
    {Text(Series \o Number), Text(Series \o <<" ">> \o Number),
     Text(<<" ">> \o Series \o <<" ">> \o Number \o <<" ">>),
     Text(Series \o <<"\t">> \o Number), Text(Series \o <<"-">> \o Number),
     Text(Series \o OtherNumber), Text(Series \o <<" ">> \o OtherNumber),
     Text(Series), [kind |-> "int", chars |-> <<>>], NoPassport}

PatronymicInputs == {None, Absent, "", "  ", "B", " B", "1"}

EmployeeArgs(first_name, patronymic, salary, passport) ==
    [employee_id |-> 1, first_name |-> first_name, last_name |-> "A",
     patronymic |-> patronymic, salary |-> salary, passport |-> passport]

\* two sets of other fields for the employees that are compared
ComparedArgs ==
    {EmployeeArgs("A", None, 0, d) : d \in PassportInputs}
    \cup {EmployeeArgs("B", "B", 1, d) : d \in PassportInputs}

InitEntity ==
    /\ employees = <<>>
    /\ file = MissingFile
    /\ store = <<>>
    /\ serial = 0
    /\ lastOp = NoOp
    /\ result = NoResult
    /\ issued = {}
    /\ observers = <<>>
    /\ notified = <<>>
    /\ loaded = {}
    /\ peer = <<>>
    /\ NoHolder

NextEntity ==
    \/ \E path \in ConstructionPaths, p \in PatronymicInputs :
          /\ p = Absent => path \in {"dict", "json"}
          /\ ConstructEmployee(path, EmployeeArgs("A", p, 0, Text(Series \o Number)))
    \/ \E v \in PatronymicInputs \ {Absent} : SetPatronymic(v)
    \/ \E a, b \in ComparedArgs : CompareEmployees(a, b)

SpecEntity == InitEntity /\ [][NextEntity]_vars

(***************************************************************************)
(* EmployeeRepDBAdapter of src/reps.py: the base class keeps the list      *)
(* _employees (the variable employees) and _save_data reconciles the table *)
(* with it.                                                                *)
(***************************************************************************)
\* EmployeeRepDB.get_all_employees of src/reps.py: "except Exception" turns
\* a row the Employee constructor rejects into an empty result
root_get_all_employees(st) ==
    IF \A i \in 1..Len(st) : EmployeeFromDict(st[i]).ok
    THEN [i \in 1..Len(st) |-> EmployeeFromDict(st[i]).val]
    ELSE <<>>

\* the keyword arguments _save_data and write_all pass to update_employee
ColumnsOf(e) ==
    <<Kw("first_name", e.first_name, 0), Kw("last_name", e.last_name, 0),
      Kw("patronymic", e.patronymic, 0), Kw("salary", None, e.salary)>>

\* the second loop of _save_data and write_all, from the i-th employee on:
\* UPDATE the row of an id that was in the table, INSERT the others, which
\* get their id from the SERIAL sequence
RECURSIVE UpdateOrInsert(_, _, _, _, _)
UpdateOrInsert(emps, i, current_ids, st, ser) ==
    IF i > Len(emps) THEN [store |-> st, serial |-> ser]
    ELSE IF emps[i].employee_id \in current_ids
    THEN UpdateOrInsert(emps, i + 1, current_ids,
                        db_update_employee(st, emps[i].employee_id, ColumnsOf(emps[i])).store,
                        ser)
    ELSE LET r == db_add_employee(st, ser, emps[i].first_name, emps[i].last_name,
                                  emps[i].salary, emps[i].patronymic)
         IN  UpdateOrInsert(emps, i + 1, current_ids, r.store, r.serial)

\* {emp.employee_id for emp in ...}
EmployeeIds(emps) == {emps[i].employee_id : i \in 1..Len(emps)}

\* EmployeeRepDBAdapter._save_data (and the body of write_all): DELETE the
\* ids of the table that the list does not hold, then update or insert
\* every employee of the list
root_save_data(emps, st, ser) ==
    LET current_ids == EmployeeIds(root_get_all_employees(st))
        kept == SelectSeq(st, LAMBDA row : row.employee_id \notin current_ids
                                           \/ row.employee_id \in EmployeeIds(emps))
    IN  UpdateOrInsert(emps, 1, current_ids, kept, ser)

\* EmployeeRep.add_employee of src/reps.py on the adapter
RootAdapterAdd(first_name, last_name, salary, patronymic) ==
    LET new_id == NewId(employees)
        made == NewEmployee(new_id, first_name, last_name, patronymic, salary)
        saved == root_save_data(Append(employees, made.val), store, serial)
    IN  /\ Len(employees) < MaxLen
        /\ new_id <= MaxId
        /\ lastOp' = Op("add", [first_name |-> first_name, last_name |-> last_name,
                                salary |-> salary, patronymic |-> patronymic])
        /\ IF made.ok
           THEN /\ saved.serial <= MaxSerial
                /\ employees' = Append(employees, made.val)
                /\ store' = saved.store
                /\ serial' = saved.serial
                /\ result' = Returned("entity", made.val)
                /\ issued' = issued \cup {made.val.employee_id}
           ELSE /\ result' = Raised("ValueError")
                /\ UNCHANGED <<employees, store, serial, issued>>
        /\ UNCHANGED <<file, observers, notified, loaded, peer, holderVars>>

\* EmployeeRep.update_employee of src/reps.py on the adapter
RootAdapterUpdate(employee_id, kwargs) ==
    LET i == IndexOfId(employees, employee_id)
        r == ApplyKwargs(employees[i], kwargs)
        saved == root_save_data([employees EXCEPT ![i] = r.val], store, serial)
    IN  /\ lastOp' = Op("update", [id |-> employee_id, kwargs |-> kwargs])
        /\ IF i = 0
           THEN /\ result' = Returned("bool", FALSE)
                /\ UNCHANGED <<employees, store, serial>>
           ELSE /\ employees' = [employees EXCEPT ![i] = r.val]
                /\ IF r.ok
                   THEN /\ saved.serial <= MaxSerial
                        /\ store' = saved.store
                        /\ serial' = saved.serial
                        /\ result' = Returned("bool", TRUE)
                   ELSE /\ result' = Raised("ValueError")
                        /\ UNCHANGED <<store, serial>>
        /\ UNCHANGED <<file, issued, observers, notified, loaded, peer, holderVars>>

\* EmployeeRep.delete_employee of src/reps.py on the adapter
RootAdapterDelete(employee_id) ==
    LET i == IndexOfId(employees, employee_id)
        saved == root_save_data(DelAt(employees, i), store, serial)
    IN  /\ lastOp' = Op("delete", [id |-> employee_id])
        /\ IF i = 0
           THEN /\ result' = Returned("bool", FALSE)
                /\ UNCHANGED <<employees, store, serial>>
           ELSE /\ saved.serial <= MaxSerial
                /\ employees' = DelAt(employees, i)
                /\ store' = saved.store
                /\ serial' = saved.serial
                /\ result' = Returned("bool", TRUE)
        /\ UNCHANGED <<file, issued, observers, notified, loaded, peer, holderVars>>

\* EmployeeRepDBAdapter.write_all: the table is reconciled with the list
\* given; _employees is not assigned
RootAdapterWriteAll(emps) ==
    LET saved == root_save_data(emps, store, serial)
    IN  /\ saved.serial <= MaxSerial
        /\ lastOp' = Op("write_all", [employees |-> emps])
        /\ store' = saved.store
        /\ serial' = saved.serial
        /\ result' = Returned("none", None)
        /\ UNCHANGED <<employees, file, issued, observers, notified, loaded, peer,
                       holderVars>>

\* EmployeeRepDBAdapter.read_all: a copy of _employees, without a query
RootAdapterReadAll ==
    /\ lastOp' = Op("read_all", NoArgs)
    /\ result' = Returned("list", employees)
    /\ UNCHANGED <<employees, file, store, serial, issued, observers, notified, loaded,
                   peer, holderVars>>

(***************************************************************************)
(* SpecRecon: one EmployeeRepDBAdapter of src/reps.py over its table.      *)
(***************************************************************************)
\* the lists write_all is called with
WrittenLists == {<<>>, <<Plain(1)>>, <<Plain(2)>>, <<Plain(1), Plain(2)>>}

NextRecon ==
    \/ \E f \in {"A", "B", "1"}, s \in {0, 1} : RootAdapterAdd(f, "A", s, None)
    \/ \E id \in 1..MaxId, kw \in BothKwargs : RootAdapterUpdate(id, kw)
    \/ \E id \in 1..MaxId : RootAdapterDelete(id)
    \/ \E emps \in WrittenLists : RootAdapterWriteAll(emps)
    \/ RootAdapterReadAll

SpecRecon == InitDB /\ [][NextRecon]_vars

(***************************************************************************)
(* A second EmployeeRepDBAdapter (src/lab2/reps.py) on the same table: its *)
(* _employees is the variable peer.                                        *)
(***************************************************************************)
\* EmployeeRepDBAdapter.add_employee called on the second adapter
PeerAdapterAdd(first_name, last_name, salary, patronymic) ==
    LET r == db_add_employee(store, serial, first_name, last_name, salary, patronymic)
        all == get_all_employees(r.store)
    IN  /\ serial < MaxSerial
        /\ lastOp' = Op("peer_add", [first_name |-> first_name, last_name |-> last_name,
                                     salary |-> salary, patronymic |-> patronymic])
        /\ store' = r.store
        /\ serial' = r.serial
        /\ IF r.result.kind = "entity"
           THEN IF all.kind = "list"
                THEN peer' = all.val /\ result' = r.result
                ELSE peer' = peer /\ result' = all
           ELSE peer' = peer /\ result' = r.result
        /\ UNCHANGED <<employees, file, issued, observers, notified, loaded, holderVars>>

\* EmployeeRepDBAdapter.delete_employee called on the second adapter
PeerAdapterDelete(employee_id) ==
    LET r == db_delete_employee(store, employee_id)
        all == get_all_employees(r.store)
    IN  /\ lastOp' = Op("peer_delete", [id |-> employee_id])
        /\ store' = r.store
        /\ IF r.result
           THEN IF all.kind = "list"
                THEN peer' = all.val /\ result' = Returned("bool", TRUE)
                ELSE peer' = peer /\ result' = all
           ELSE peer' = peer /\ result' = Returned("bool", FALSE)
        /\ UNCHANGED <<employees, file, serial, issued, observers, notified, loaded,
                       holderVars>>

(***************************************************************************)
(* SpecPeers: two EmployeeRepDBAdapter instances (src/lab2/reps.py) on one *)
(* table, called one after the other with valid arguments.                 *)
(***************************************************************************)
NextPeers ==
    \/ \E f \in {"A", "B"}, s \in {0, 1} : AdapterAdd(f, "A", s, None)
    \/ \E id \in 1..MaxSerial : AdapterDelete(id)
    \/ \E f \in {"A", "B"}, s \in {0, 1} : PeerAdapterAdd(f, "A", s, None)
    \/ \E id \in 1..MaxSerial : PeerAdapterDelete(id)
    \/ \E k \in 1..2, n \in 1..2 : AdapterGetPage(k, n)
    \/ \E id \in 1..MaxSerial : GetById(id)
    \/ GetCount

SpecPeers == InitDB /\ [][NextPeers]_vars

(***************************************************************************)
(* DatabaseConnection of src/lab2/reps.py and src/reps.py: __new__ run     *)
(* statement by statement by each DatabaseConnection(...) call.            *)
(***************************************************************************)
MaxCalls == 3

\* the argument sets of DatabaseConnection(host, port, database, user, password)
ConnectionParams ==
    {[host |-> h, port |-> 5432, database |-> "db", user |-> "u", password |-> "p"] :
        h \in {"h1", "h2", "h3"}}

\* an object fresh from super().__new__(cls): connection_params is not set
Unset == [host |-> None, port |-> 0, database |-> None, user |-> None, password |-> None]

\* a test that finds a holder missing whatever cls._instance is
InstanceIsNoneAlways(inst) == TRUE

\* cls._instance is None
InstanceIsNone(inst) == inst = 0

\* a construction that makes no second object
NewObjectOnce(objs) == IF objs = <<>> THEN Append(objs, Unset) ELSE objs

\* super().__new__(cls)
NewObject(objs) == Append(objs, Unset)

Running(c) == calls[c].pc # "done"

\* DatabaseConnection(host, port, database, user, password) is called
Call(params) ==
    /\ Len(calls) < MaxCalls
    /\ calls' = Append(calls, [pc |-> "if", params |-> params, created |-> FALSE,
                               returned |-> 0])
    /\ UNCHANGED <<_instance, created>>
    /\ UNCHANGED <<employees, file, store, serial, lastOp, result, issued, observers,
                   notified, loaded, peer>>

\* if cls._instance is None:
TestInstance(c) ==
    /\ calls[c].pc = "if"
    /\ calls' = [calls EXCEPT ![c].pc = IF InstanceIsNone(_instance) THEN "new"
                                        ELSE "return"]
    /\ UNCHANGED <<_instance, created>>
    /\ UNCHANGED <<employees, file, store, serial, lastOp, result, issued, observers,
                   notified, loaded, peer>>

\* cls._instance = super().__new__(cls)
AssignInstance(c) ==
    /\ calls[c].pc = "new"
    /\ created' = NewObject(created)
    /\ _instance' = Len(created')
    /\ calls' = [calls EXCEPT ![c].pc = "params", ![c].created = TRUE]
    /\ UNCHANGED <<employees, file, store, serial, lastOp, result, issued, observers,
                   notified, loaded, peer>>

\* cls._instance.connection_params = {...}: on the object cls._instance names now
SetParams(c) ==
    /\ calls[c].pc = "params"
    /\ created' = [created EXCEPT ![_instance] = calls[c].params]
    /\ calls' = [calls EXCEPT ![c].pc = "return"]
    /\ UNCHANGED _instance
    /\ UNCHANGED <<employees, file, store, serial, lastOp, result, issued, observers,
                   notified, loaded, peer>>

\* return cls._instance
ReturnInstance(c) ==
    /\ calls[c].pc = "return"
    /\ calls' = [calls EXCEPT ![c].pc = "done", ![c].returned = _instance]
    /\ UNCHANGED <<_instance, created>>
    /\ UNCHANGED <<employees, file, store, serial, lastOp, result, issued, observers,
                   notified, loaded, peer>>

(***************************************************************************)
(* SpecHolder: DatabaseConnection(...) calls made one after the other.     *)
(* SpecRace: the same calls made by threads that may switch between the    *)
(* statements of __new__.                                                  *)
(***************************************************************************)
NoCallRunning == \A c \in 1..Len(calls) : ~Running(c)

NextHolder ==
    \/ \E params \in ConnectionParams : NoCallRunning /\ Call(params)
    \/ \E c \in 1..Len(calls) : TestInstance(c)
    \/ \E c \in 1..Len(calls) : AssignInstance(c)
    \/ \E c \in 1..Len(calls) : SetParams(c)
    \/ \E c \in 1..Len(calls) : ReturnInstance(c)

SpecHolder == InitDB /\ [][NextHolder]_vars

NextRace ==
    \/ \E params \in ConnectionParams : Call(params)
    \/ \E c \in 1..Len(calls) : TestInstance(c)
    \/ \E c \in 1..Len(calls) : AssignInstance(c)
    \/ \E c \in 1..Len(calls) : SetParams(c)
    \/ \E c \in 1..Len(calls) : ReturnInstance(c)

SpecRace == InitDB /\ [][NextRace]_vars

(***************************************************************************)
(* A second file backend instance (src/lab2/reps.py) on the same file: its *)
(* _employees is the variable peer.                                        *)
(***************************************************************************)
\* a save that appends the last employee to what the file holds
save_data_appending(emps, f) ==
    [kind |-> "list",
     items |-> f.items \o SubSeq(Snapshot(emps).items, Len(emps), Len(emps))]

\* save_data of an instance whose list is emps: open(self._filename, 'w')
\* truncates the file f and the whole list is dumped
save_data(emps, f) == Snapshot(emps)

\* EmployeeRep.add_employee called on the second instance
PeerAdd(first_name, last_name, salary, patronymic) ==
    LET new_id == NewId(peer)
        made == NewEmployee(new_id, first_name, last_name, patronymic, salary)
    IN  /\ Len(peer) < MaxLen
        /\ new_id <= MaxId
        /\ lastOp' = Op("peer_add", [first_name |-> first_name, last_name |-> last_name,
                                     salary |-> salary, patronymic |-> patronymic])
        /\ IF made.ok
           THEN /\ peer' = Append(peer, made.val)
                /\ file' = save_data(peer', file)
                /\ result' = Returned("entity", made.val)
           ELSE /\ result' = Raised("ValueError")
                /\ UNCHANGED <<peer, file>>
        /\ UNCHANGED <<employees, store, serial, issued, observers, notified, loaded,
                       holderVars>>

(***************************************************************************)
(* SpecTwo: two file backend instances constructed on the same file, then  *)
(* adding in any order.                                                    *)
(***************************************************************************)
InitTwo ==
    /\ file \in InitFiles
    /\ employees = ReadAll(file)
    /\ peer = ReadAll(file)
    /\ store = <<>>
    /\ serial = 0
    /\ lastOp = NoOp
    /\ result = NoResult
    /\ issued = {}
    /\ observers = <<>>
    /\ notified = <<>>
    /\ loaded = {}
    /\ NoHolder

NextTwo ==
    \/ \E f \in {"A", "1"}, s \in {0, 1} : AddEmployee(f, "A", s, None)
    \/ \E f \in {"B", "1"}, s \in {0, 1} : PeerAdd(f, "A", s, None)

SpecTwo == InitTwo /\ [][NextTwo]_vars

(***************************************************************************)
(* Subject.notify with observers of any Observer subclass: update may      *)
(* return, raise, or detach an observer from the subject that is notifying.*)
(* (MainControllerObserver.update only prints.)                            *)
(***************************************************************************)
\* what an Observer.update does when called
Returns == [does |-> "return", whom |-> None]
Raises == [does |-> "raise", whom |-> None]
Detaches(observer) == [does |-> "detach", whom |-> observer]

UpdateBodies == {Returns, Raises} \cup {Detaches(o) : o \in Observers}

\* for observer in self._observers: observer.update(event_type, data), from
\* position i of the list iterator on. The iterator reads the list itself,
\* so a detach made by an update shifts the observers behind it; an
\* exception leaves the loop and notify.
RECURSIVE notify_from(_, _, _, _, _, _)
notify_from(obs, i, update, event_type, data, made) ==
    IF i > Len(obs) THEN [observers |-> obs, notified |-> made, raised |-> FALSE]
    ELSE LET call == [observer |-> obs[i], event_type |-> event_type, data |-> data]
             body == update[obs[i]]
         IN  IF body.does = "raise"
             THEN [observers |-> obs, notified |-> Append(made, call), raised |-> TRUE]
             ELSE notify_from(IF body.does = "detach" THEN detach(obs, body.whom) ELSE obs,
                              i + 1, update, event_type, data, Append(made, call))

\* ObservableEmployeeRepository.add_employee over a file backend, with the
\* update methods of the observers given
NotifyingAdd(first_name, last_name, salary, patronymic, update) ==
    LET new_id == NewId(employees)
        made == NewEmployee(new_id, first_name, last_name, patronymic, salary)
        sent == notify_from(observers, 1, update, "employee_added", made.val, <<>>)
    IN  /\ Len(employees) < MaxLen
        /\ new_id <= MaxId
        /\ lastOp' = Op("notifying_add",
                        [first_name |-> first_name, last_name |-> last_name,
                         salary |-> salary, patronymic |-> patronymic, update |-> update])
        /\ IF made.ok
           THEN /\ employees' = Append(employees, made.val)
                /\ file' = Snapshot(employees')
                /\ issued' = issued \cup {made.val.employee_id}
                /\ observers' = sent.observers
                /\ notified' = sent.notified
                /\ result' = IF sent.raised THEN Raised("Exception")
                             ELSE Returned("entity", made.val)
           ELSE /\ result' = Raised("ValueError")
                /\ notified' = <<>>
                /\ UNCHANGED <<employees, file, issued, observers>>
        /\ UNCHANGED <<store, serial, loaded, peer, holderVars>>

(***************************************************************************)
(* SpecNotify: the notifying wrapper around a file backend, with observers *)
(* whose update may detach or raise.                                       *)
(***************************************************************************)
\* the update methods of the observers: at most one of them does more than
\* return
Updates ==
    {[o \in Observers |-> IF o = who THEN body ELSE Returns] :
        who \in Observers, body \in UpdateBodies}

NextNotify ==
    \/ \E o \in Observers : Attach(o)
    \/ \E o \in Observers : Detach(o)
    \/ \E f \in {"A", "1"}, update \in Updates : NotifyingAdd(f, "A", 0, None, update)

SpecNotify == Init /\ [][NextNotify]_vars

(***************************************************************************)
(* SpecDegraded: a JSON or YAML backend constructed on a file that exists  *)
(* and does not hold a list of valid records, then adding.                 *)
(***************************************************************************)
\* the documents whose load leaves no employee though the file exists
MalformedDocuments ==
    {d \in Documents :
        /\ d.kind # "missing"
        /\ ~(d.kind = "list" /\ \A i \in 1..Len(d.items) : EmployeeOfItem(d.items[i]).ok)}

InitDegraded ==
    /\ file \in MalformedDocuments
    /\ employees = <<>>
    /\ store = <<>>
    /\ serial = 0
    /\ lastOp = NoOp
    /\ result = NoResult
    /\ issued = {}
    /\ observers = <<>>
    /\ notified = <<>>
    /\ loaded = {}
    /\ peer = <<>>
    /\ NoHolder

\* the constructor returned an instance
InstanceExists == lastOp # NoOp /\ ~(lastOp.name = "construct" /\ result.kind # "list")

NextDegraded ==
    \/ \E variant \in {"json", "yaml"} : Construct(variant)
    \/ \E f \in {"A", "B", "1"}, s \in SalaryInputs :
          InstanceExists /\ AddEmployee(f, "A", s, None)

SpecDegraded == InitDegraded /\ [][NextDegraded]_vars

(***************************************************************************)
(* Properties.                                                             *)
(***************************************************************************)
Ids(emps) == [i \in 1..Len(emps) |-> emps[i].employee_id]
IdSet(emps) == {emps[i].employee_id : i \in 1..Len(emps)}
Added == lastOp.name = "add" /\ result.kind = "entity"

\* C1: the ids add returns are strictly increasing and never reused: every
\* id add returns is greater than every id add returned before, over any
\* sequence of adds and deletes (1, 2, 3, and after delete(3) 4, not 3).
C1_IdsNeverReused ==
    [][(lastOp'.name = "add" /\ result'.kind = "entity")
         => \A old \in issued : result'.val.employee_id > old]_vars

\* the greatest id of a non-empty collection, as a set maximum
GreatestId(emps) == CHOOSE m \in IdSet(emps) : \A x \in IdSet(emps) : x <= m

\* C2: in the file backends add gives the new entity the id max(existing
\* ids) + 1, or 1 when the collection is empty, and appends it at the end of
\* the collection.
C2_AddAssignsMaxPlusOne ==
    [][(lastOp'.name = "add" /\ result'.kind = "entity")
         => /\ result'.val.employee_id =
                 (IF employees = <<>> THEN 1 ELSE GreatestId(employees) + 1)
            /\ employees' = Append(employees, result'.val)]_vars

\* an add on a collection whose greatest id is not its last one
C2_Witness ==
    /\ Added
    /\ Len(employees) = 3
    /\ employees[1].employee_id = 2
    /\ employees[2].employee_id = 1
    /\ result.val.employee_id = 3

\* C3: starting from a collection with pairwise distinct ids, after any
\* sequence of add, update, delete and sort_by no two entities of the
\* in-memory collection share an employee_id.
C3_UniqueIds ==
    \A i, j \in 1..Len(employees) :
        i # j => employees[i].employee_id # employees[j].employee_id

\* an add after a delete that freed a smaller id
C3_Witness ==
    /\ Added
    /\ Ids(employees) = <<2, 3>>
    /\ issued = {1, 2, 3}

Ceil(a, b) == (a + b - 1) \div b

RECURSIVE Concat(_)
Concat(seqs) == IF seqs = <<>> THEN <<>> ELSE Head(seqs) \o Concat(Tail(seqs))

PagesOf(emps, k) == [n \in 1..Ceil(Len(emps), k) |-> get_k_n_short_list(emps, k, n)]
RootPagesOf(emps, k) ==
    [n \in 1..Ceil(Len(emps), k) |-> get_k_n_short_list_root(emps, k, n)]

\* C4: for every collection and every page size k >= 1 the pages
\* get_page(k, n), n = 1..ceil(count/k), are each returned without failure
\* and concatenated in order are the whole collection in backing order,
\* every entity exactly once (in src/reps.py: the entries of the entities).
C4_PagesCover ==
    \A k \in 1..MaxK :
        /\ \A n \in 1..Ceil(Len(employees), k) :
              /\ PagesOf(employees, k)[n].kind = "list"
              /\ RootPagesOf(employees, k)[n].kind = "list"
        /\ Concat([n \in 1..Ceil(Len(employees), k) |-> PagesOf(employees, k)[n].val])
             = employees
        /\ Concat([n \in 1..Ceil(Len(employees), k) |-> RootPagesOf(employees, k)[n].val])
             = [i \in 1..Len(employees) |-> ShortEntry(employees[i])]

\* the last, shorter page of a collection of three was returned
C4_Witness ==
    /\ lastOp.name = "get_page_lab2"
    /\ lastOp.args.k = 2
    /\ lastOp.args.n = 2
    /\ Len(employees) = 3
    /\ result.kind = "list"
    /\ result.val = <<employees[3]>>

\* the entities at the 0-based positions i with (n-1)*k <= i < (n-1)*k + k
RECURSIVE WindowFrom(_, _, _, _)
WindowFrom(emps, k, n, pos) ==
    IF pos >= Len(emps) THEN <<>>
    ELSE IF (n - 1) * k <= pos /\ pos < (n - 1) * k + k
         THEN <<emps[pos + 1]>> \o WindowFrom(emps, k, n, pos + 1)
         ELSE WindowFrom(emps, k, n, pos + 1)

Window(emps, k, n) == WindowFrom(emps, k, n, 0)

PlainDecoratorPage ==
    /\ lastOp.name = "decorator_get_page"
    /\ lastOp.args.filter_func = "none"
    /\ lastOp.args.field = None

\* C5: get_page(k, n) returns exactly the entities at the 0-based positions
\* i with (n-1)*k <= i < (n-1)*k + k, in backing order; the page index is
\* 1-based, so a call with n <= 0 returns no entities.
C5_PageIsWindow ==
    ((lastOp.name = "get_page_lab2" \/ PlainDecoratorPage) /\ result.kind = "list")
        => result.val = Window(employees, lastOp.args.k, lastOp.args.n)

StartIndex == (lastOp.args.n - 1) * lastOp.args.k

ProperPage == lastOp.args.k >= 1 /\ lastOp.args.n >= 1

\* C6 as stated, for page sizes k >= 1 and page indexes n >= 1: the lab2
\* variant raises the out-of-range failure exactly when the start offset
\* (n-1)*k exceeds the collection size and otherwise returns the window; the
\* src/reps.py variant returns an empty sequence in those cases and never
\* raises.
C6_RaisesWhenStartExceeds ==
    /\ (lastOp.name = "get_page_lab2" /\ ProperPage) =>
          IF StartIndex > Len(employees) THEN result.kind = "IndexError"
          ELSE /\ result.kind = "list"
               /\ result.val = Window(employees, lastOp.args.k, lastOp.args.n)
    /\ (lastOp.name = "get_page_root" /\ ProperPage) =>
          /\ result.kind = "list"
          /\ StartIndex > Len(employees) => result.val = <<>>

\* the loop of get_k_n_short_list reads an index before the beginning
ReadsBeforeStart == lastOp.args.k > 0 /\ StartIndex < -Len(employees)

\* C6 amended: the lab2 variant raises IndexError exactly when the start
\* offset is at least the collection size (>=, not >), or when a page index
\* n <= 0 with k >= 1 puts the start more than the collection size before
\* its beginning; for n >= 1 and k >= 1 it otherwise returns the window.
\* The src/reps.py variant returns an empty sequence whenever the start
\* offset is at least the collection size and raises only in the second
\* case.
C6_RaisesWhenStartAtLeastSize ==
    /\ lastOp.name = "get_page_lab2" =>
          /\ result.kind = "IndexError" <=>
                (StartIndex >= Len(employees) \/ ReadsBeforeStart)
          /\ result.kind \in {"IndexError", "list"}
          /\ (result.kind = "list" /\ lastOp.args.n >= 1 /\ lastOp.args.k >= 1)
                => result.val = Window(employees, lastOp.args.k, lastOp.args.n)
    /\ lastOp.name = "get_page_root" =>
          /\ StartIndex >= Len(employees) =>
                (result.kind = "list" /\ result.val = <<>>)
          /\ result.kind = "IndexError" <=>
                (StartIndex < Len(employees) /\ ReadsBeforeStart)
          /\ result.kind \in {"IndexError", "list"}

\* the page that starts exactly at the end of a non-empty collection
C6_Witness ==
    /\ lastOp.name = "get_page_lab2"
    /\ Len(employees) = 2
    /\ lastOp.args.k = 2
    /\ lastOp.args.n = 2
    /\ result.kind = "IndexError"

\* the collection a sort call orders: the list of a file backend, the rows
\* of the table in id order for the adapter
SortBase ==
    IF lastOp.name = "adapter_sort" THEN get_all_employees(store).val ELSE employees

PosIn(emps, e) == CHOOSE i \in 1..Len(emps) : emps[i] = e

SortedCall ==
    /\ lastOp.name \in {"sort", "adapter_sort"}
    /\ lastOp.args.field \in ValidSortFields

\* C7: sort_by(field, reverse) for each valid field returns a permutation of
\* the collection ordered by that field (descending with reverse), in which
\* entities with equal keys keep the relative order they had in the
\* collection.
C7_SortIsStable ==
    SortedCall =>
        /\ result.kind = "list"
        /\ Len(result.val) = Len(SortBase)
        /\ \A i \in 1..Len(SortBase) : \E j \in 1..Len(result.val) :
              result.val[j] = SortBase[i]
        /\ \A i, j \in 1..Len(result.val) : i < j =>
              LET ki == SortKey(result.val[i], lastOp.args.field)
                  kj == SortKey(result.val[j], lastOp.args.field)
              IN  /\ IF lastOp.args.reverse THEN ki >= kj ELSE ki <= kj
                  /\ ki = kj => PosIn(SortBase, result.val[i]) < PosIn(SortBase, result.val[j])

\* a descending sort by salary that moved entities and kept a tie in order
C7_Witness ==
    /\ lastOp.name = "sort"
    /\ lastOp.args.field = "salary"
    /\ lastOp.args.reverse
    /\ Len(employees) = 3
    /\ result.kind = "list"
    /\ result.val = <<employees[3], employees[1], employees[2]>>
    /\ employees[1].salary = employees[2].salary

\* C8: sort_by with a field outside {employee_id, first_name, last_name,
\* salary} always fails with a validation failure on every backend and in
\* the decorator, returns no data and changes nothing.
C8_InvalidFieldFails ==
    (/\ lastOp.name \in {"sort", "adapter_sort", "decorator_get_page"}
     /\ lastOp.args.field \notin ValidSortFields \cup {None})
        => /\ result.kind = "ValueError"
           /\ file = Snapshot(employees)

\* C9: after sort_by on a file backend the file snapshot lists the records
\* in the sorted order that sort_by returned.
C9_SortPersisted ==
    (lastOp.name = "sort" /\ result.kind = "list") => file = Snapshot(result.val)

SalaryOnly(kwargs) ==
    Len(kwargs) = 1 /\ kwargs[1].field = "salary" /\ kwargs[1].ival >= 0

\* C10: update(id, {salary: s}) on an existing id with a valid salary
\* returns true; a following get_by_id(id) shows salary s with every other
\* field of that entity unchanged, and all other entities, the count and the
\* order of the collection are unchanged.
C10_UpdateSalaryFrame ==
    [][(/\ lastOp'.name = "update"
        /\ SalaryOnly(lastOp'.args.kwargs)
        /\ IndexOfId(employees, lastOp'.args.id) # 0)
         => LET i == IndexOfId(employees, lastOp'.args.id)
                seen == get_by_id(employees', lastOp'.args.id)
            IN  /\ result'.kind = "bool"
                /\ result'.val = TRUE
                /\ seen.kind = "entity"
                /\ seen.val = [employees[i] EXCEPT !.salary = lastOp'.args.kwargs[1].ival]
                /\ Len(employees') = Len(employees)
                /\ \A j \in 1..Len(employees) : j # i => employees'[j] = employees[j]]_vars

\* the fields a call of update_employee supplies
Supplied(kwargs) == {kwargs[i].field : i \in 1..Len(kwargs)}

\* the entities at the same positions differ at most in the fields in changed
SameExcept(before, after, changed) ==
    /\ Len(after) = Len(before)
    /\ \A i \in 1..Len(before) :
          \A f \in {"employee_id", "first_name", "last_name", "patronymic", "salary"} \ changed :
              after[i][f] = before[i][f]

\* C11: update applies only the recognized fields first_name, last_name,
\* patronymic and salary: any other supplied field (passport, employee_id)
\* is ignored. After every update call each entity of a file backend and
\* each row of the store has the id it had before and differs at most in
\* the recognized fields that were supplied, and a call that supplies no
\* recognized field changes no entity and no row. (The entity of these
\* repositories carries no passport attribute that an update could reach.)
C11_UpdateOnlyRecognized ==
    [][lastOp'.name = "update" =>
         LET changed == Supplied(lastOp'.args.kwargs) \cap RecognizedFields
         IN  /\ SameExcept(store, store', changed)
             /\ OnFile => SameExcept(employees, employees', changed)
             /\ changed = {} => UNCHANGED <<employees, store>>]_vars

\* an update that supplied employee_id next to a salary was applied to an
\* entity whose id is not the supplied one
C11_Witness ==
    /\ lastOp.name = "update"
    /\ "employee_id" \in Supplied(lastOp.args.kwargs)
    /\ lastOp.args.id # MaxId
    /\ result.kind = "bool"
    /\ result.val = TRUE
    /\ get_by_id(employees, lastOp.args.id).kind = "entity"
    /\ get_by_id(employees, lastOp.args.id).val.salary = 1

\* every supplied value passes the validation of its field
ValidValues(kwargs) == \A i \in 1..Len(kwargs) : SetField(Plain(1), kwargs[i]).ok

\* the repository holds an entity with this id: in the list of a file
\* backend, in the table of the adapter
Exists(employee_id) ==
    IF OnFile THEN employee_id \in IdSet(employees)
    ELSE employee_id \in IdSet(store)

\* C12: update(id, fields) returns true exactly when an entity with that id
\* exists, whatever fields are supplied (none, only unrecognized ones, or
\* recognized ones with valid values), on the file backends and on the
\* relational adapter alike.
C12_UpdateReturnsExistence ==
    [][(lastOp'.name = "update" /\ ValidValues(lastOp'.args.kwargs))
          => /\ result'.kind = "bool"
             /\ result'.val = Exists(lastOp'.args.id)]_vars

\* C13: delete(id) for an id that is not in the repository returns false
\* and alters nothing: the in-memory collection with its order and count,
\* the stored snapshot and the rows of the store are as before the call.
C13_DeleteMissingIsNoOp ==
    [][(lastOp'.name = "delete" /\ ~Exists(lastOp'.args.id))
          => /\ result'.kind = "bool"
             /\ result'.val = FALSE
             /\ UNCHANGED <<employees, file, store>>]_vars

\* a delete of a missing id was refused on a file backend holding two
\* entities
C13_Witness ==
    /\ lastOp.name = "delete"
    /\ OnFile
    /\ Len(employees) = 2
    /\ lastOp.args.id \notin IdSet(employees)
    /\ result.kind = "bool"
    /\ result.val = FALSE
    /\ file = Snapshot(employees)

\* C14: a validation failure in update is never partially applied: when a
\* supplied value is invalid update fails and the target entity keeps all
\* its previous field values in memory and in storage, also when valid
\* fields precede the invalid one in the same call.
C14_UpdateNotPartial ==
    [][(lastOp'.name = "update" /\ ~ValidValues(lastOp'.args.kwargs)
        /\ lastOp'.args.id \in IdSet(employees))
          => /\ result'.kind = "ValueError"
             /\ UNCHANGED <<employees, file>>]_vars

\* the arguments of an add_employee call fail the validation of the entity
InvalidAdd(args) ==
    ~NewEmployee(1, args.first_name, args.last_name, args.patronymic, args.salary).ok

\* the call that ran in this step was an add or an update with a value that
\* fails the validation of the entity
InvalidWrite ==
    \/ lastOp'.name = "add" /\ InvalidAdd(lastOp'.args)
    \/ lastOp'.name = "update" /\ ~ValidValues(lastOp'.args.kwargs)

\* C15: on the relational adapter add and update with field values that
\* fail the validation of the entity fail before any statement changes the
\* store: they do not report success, the rows of the store are the same
\* after the call as before it, and if the adapter could read its table
\* before the call it still can.
C15_AdapterValidatesFirst ==
    [][InvalidWrite
          => /\ result'.kind \in {"ValueError", "none"}
                  \/ (result'.kind = "bool" /\ result'.val = FALSE)
             /\ store' = store
             /\ get_all_employees(store).kind = "list"
                  => get_all_employees(store').kind = "list"]_vars

\* the operation that ran last was an add, update or delete that reported
\* success
Succeeded ==
    \/ lastOp.name = "add" /\ result.kind = "entity"
    \/ lastOp.name \in {"update", "delete"} /\ result.kind = "bool" /\ result.val = TRUE

LoadableFile == file.kind = "list" /\ \A i \in 1..Len(file.items) : EmployeeOfItem(file.items[i]).ok

\* C17: constructing a file backend never raises because of the file: a
\* missing file and a file whose content cannot be turned into a
\* collection (syntax error, a record failing validation, a document that
\* is not a sequence of records, such as null or a scalar) yield an empty
\* collection, identically in the JSON and the YAML variant.
C17_ConstructNeverRaises ==
    lastOp.name = "construct"
        => /\ result.kind = "list"
           /\ ~LoadableFile => employees = <<>>
           /\ json_read_all(file) = yaml_read_all(file)

\* the write of the operation that ran in this step failed
WriteFailed == "io" \in DOMAIN lastOp'.args

\* C18: when writing the file fails during add, update or delete on a file
\* backend, the failure is not propagated to the caller and the operation
\* reports the degraded failure value (false for update and delete, no
\* entity for add) rather than success.
C18_WriteFailureReported ==
    [][WriteFailed
          => /\ result'.kind \in {"bool", "none"}
             /\ result'.kind = "bool" => result'.val = FALSE]_vars

NoDuplicates(obs) == \A i, j \in 1..Len(obs) : i # j => obs[i] # obs[j]

\* the observers other than o, in the order they have in obs
Others(obs, o) == SelectSeq(obs, LAMBDA x : x # o)

\* C19: the observer list is free of duplicates in every reachable state;
\* attaching an observer that is present and detaching one that is absent
\* leave the list unchanged, a new observer is appended at the end, and
\* detaching a present observer removes only it, keeping the order of the
\* others; no other operation changes the list.
C19_ObserverListOrderedSet ==
    /\ [](NoDuplicates(observers))
    /\ [][LET o == lastOp'.args.observer
          IN  /\ lastOp'.name = "attach" =>
                    observers' = IF o \in Attached(observers) THEN observers
                                 ELSE observers \o <<o>>
              /\ lastOp'.name = "detach" => observers' = Others(observers, o)
              /\ lastOp'.name \notin {"attach", "detach"} => observers' = observers]_vars

\* the middle one of three observers was detached
C19_Witness ==
    /\ lastOp.name = "detach"
    /\ lastOp.args.observer = "o2"
    /\ observers = <<"o3", "o1">>

\* C20: add on a notification-wrapped repository delivers exactly one added
\* event, carrying the new entity, to each attached observer, in the order
\* in which the observers were attached, before add returns; an add that
\* fails delivers nothing.
C20_AddNotifiesEachOnce ==
    lastOp.name = "observable_add" =>
        IF result.kind = "entity"
        THEN /\ Len(notified) = Len(observers)
             /\ \A i \in 1..Len(observers) :
                   /\ notified[i].observer = observers[i]
                   /\ notified[i].event_type = "employee_added"
                   /\ notified[i].data = result.val
        ELSE notified = <<>>

\* an add was announced to three observers attached in the order o2, o3, o1
C20_Witness ==
    /\ lastOp.name = "observable_add"
    /\ result.kind = "entity"
    /\ observers = <<"o2", "o3", "o1">>
    /\ Len(notified) = 3
    /\ notified[1].observer = "o2"
    /\ notified[3].observer = "o1"

\* the event types of the update calls made on observer o, in call order
TypesTo(n, o) ==
    LET mine == SelectSeq(n, LAMBDA c : c.observer = o)
    IN  [i \in 1..Len(mine) |-> mine[i].event_type]

\* C21: through the notification wrapper each operation emits exactly one
\* event when it changes the repository's state and none otherwise: a
\* successful add one added, a successful update one updated (and no
\* viewed), a successful delete one deleted; update or delete of an absent
\* id, an update that changes no field, get_page, count and sort_by none.
C21_OneEventPerChange ==
    [][\A o \in Attached(observers') :
         LET types == TypesTo(notified', o)
             returned == result'.kind = "bool"
         IN  /\ (lastOp'.name = "observable_add" /\ result'.kind = "entity")
                   => types = <<"employee_added">>
             /\ (lastOp'.name = "observable_update" /\ returned /\ employees' # employees)
                   => types = <<"employee_updated">>
             /\ (lastOp'.name = "observable_delete" /\ returned /\ employees' # employees)
                   => types = <<"employee_deleted">>
             /\ (lastOp'.name \in {"observable_update", "observable_delete"}
                   /\ employees' = employees)
                   => types = <<>>
             /\ lastOp'.name \in {"observable_get_page", "observable_count",
                                  "observable_sort"}
                   => types = <<>>]_vars

\* C22: the load of a notification-wrapped repository is announced to the
\* subscribed listeners: every observer subscribed to the wrapper has
\* received one loaded event.
C22_LoadAnnounced ==
    \A o \in Attached(observers) : \E h \in loaded : h.observer = o

\* C23: with no predicate and no sort field the decorator's get_page(k, n)
\* gives the same outcome as the inner repository's direct get_page(k, n)
\* for every k >= 1 and n >= 1, out-of-range pages and the empty collection
\* included: the same entities in the same order, or the same failure.
C23_DecoratorMatchesInner ==
    (PlainDecoratorPage /\ ProperPage) =>
        LET direct == get_k_n_short_list(employees, lastOp.args.k, lastOp.args.n)
        IN  /\ result.kind = direct.kind
            /\ result.kind = "list" => result.val = direct.val

\* the entities of emps that satisfy the predicate, in backing order
Satisfying(emps, filter_func) == SelectSeq(emps, LAMBDA e : Passes(filter_func, e))

\* C24: count(predicate) on the decorator returns the number of entities of
\* the inner repository that satisfy the predicate (the full count without
\* a predicate), for every inner collection; for the empty one it returns 0.
C24_DecoratorCount ==
    lastOp.name = "decorator_count" =>
        /\ result.kind = "int"
        /\ result.val = Len(Satisfying(employees, lastOp.args.filter_func))

\* out holds the entities of base, each once, ordered by the field
\* (descending with reverse), entities with equal keys in the order of base;
\* without a field it is base itself
StablyOrdered(out, base, sort_field, reverse) ==
    IF sort_field = None THEN out = base
    ELSE /\ Len(out) = Len(base)
         /\ \A i \in 1..Len(base) : \E j \in 1..Len(out) : out[j] = base[i]
         /\ \A i, j \in 1..Len(out) : i < j =>
               LET ki == SortKey(out[i], sort_field)
                   kj == SortKey(out[j], sort_field)
               IN  /\ IF reverse THEN ki >= kj ELSE ki <= kj
                   /\ ki = kj => PosIn(base, out[i]) < PosIn(base, out[j])

\* C25: for every predicate, sort field, reverse flag and page size k >= 1
\* the decorator filters, then sorts stably, then windows: the pages
\* n = 1..ceil(count(predicate)/k) concatenated are exactly the entities
\* satisfying the predicate, each once, in the stable sorted order, and
\* their number is count(predicate).
C25_FilterSortWindow ==
    lastOp.name = "decorator_count" =>
        /\ result.kind = "int"
        /\ \A k \in 1..MaxK, sf \in {None} \cup ValidSortFields, reverse \in BOOLEAN :
              LET ff == lastOp.args.filter_func
                  pages == [n \in 1..Ceil(result.val, k) |->
                              decorator_get_k_n_short_list(employees, k, n, ff, sf, reverse)]
                  all == Concat([n \in 1..Len(pages) |-> pages[n].val])
              IN  /\ \A n \in 1..Len(pages) : pages[n].kind = "list"
                  /\ StablyOrdered(all, Satisfying(employees, ff), sf, reverse)
                  /\ Len(all) = result.val

DecoratorCalls ==
    {"decorator_get_page", "decorator_count", "file_decorator_get_page",
     "file_decorator_count"}

\* C26: the decorator persists and changes nothing: after any decorator
\* get_page or count call the inner repository's in-memory collection, its
\* order and its stored snapshot are the same as before the call.
C26_DecoratorChangesNothing ==
    [][lastOp'.name \in DecoratorCalls => UNCHANGED <<employees, file>>]_vars

\* the digits of a passport text, in order
DigitsOf(passport) == SelectSeq(passport.chars, LAMBDA c : c \in Digits)

\* the passport is written in one of the two forms: ten digits, or four
\* digits, a space and six digits (with or without blanks around it)
InEitherForm(passport) ==
    /\ passport.kind = "str"
    /\ LET cs == StripChars(passport.chars)
       IN  \/ Len(cs) = 10 /\ AllDigits(cs, 1, 10)
           \/ Len(cs) = 11 /\ cs[5] = " " /\ AllDigits(cs, 1, 4) /\ AllDigits(cs, 6, 11)

\* C27: passport normalization is idempotent and both accepted input forms
\* normalize to the same 10-digit value: entities constructed with
\* "1234 123456" and "1234123456" compare equal whatever their other
\* fields, and two entities compare equal only if their normalized
\* passports match.
C27_PassportNormalized ==
    lastOp.name = "compare" =>
        LET a == lastOp.args.left.passport
            b == lastOp.args.right.passport
        IN  /\ (InEitherForm(a) /\ InEitherForm(b)) =>
                  /\ result.kind = "bool"
                  /\ employees[1].passport = DigitsOf(a)
                  /\ Len(employees[1].passport) = 10
                  /\ result.val = (DigitsOf(a) = DigitsOf(b))
            /\ result.kind = "bool" =>
                  /\ \A i \in 1..2 :
                        validate_passport(Text(employees[i].passport))
                          = Ok(employees[i].passport)
                  /\ result.val => DigitsOf(a) = DigitsOf(b)

\* the two forms of one passport, on employees that differ in every other
\* field, compared equal
C27_Witness ==
    /\ lastOp.name = "compare"
    /\ lastOp.args.left.passport = Text(Series \o <<" ">> \o Number)
    /\ lastOp.args.right.passport = Text(Series \o Number)
    /\ lastOp.args.left.first_name # lastOp.args.right.first_name
    /\ result.kind = "bool"
    /\ result.val

EmptyAfterTrim(value) == value \in {"", "  "}

\* C28: a patronymic that is empty after trimming (the empty string or only
\* spaces) is accepted and normalized to absent by every construction path
\* and by the patronymic setter, instead of being rejected as a validation
\* failure.
C28_EmptyPatronymicIsAbsent ==
    /\ (lastOp.name = "construct_employee" /\ EmptyAfterTrim(lastOp.args.given.patronymic))
          => (result.kind = "entity" /\ result.val.patronymic = None)
    /\ (lastOp.name = "set_patronymic" /\ EmptyAfterTrim(lastOp.args.value))
          => (result.kind = "none" /\ employees[1].patronymic = None)

\* the call that ran last came back with a value instead of raising
ReturnedNormally == result.kind \in {"entity", "bool", "list", "none", "int"}

\* C29: a file backend is a write-through snapshot: provided file writes
\* succeed, after every add, update, delete or sort_by call that returns,
\* the file holds exactly the records of the in-memory collection in the
\* same order.
C29_WriteThroughSnapshot ==
    (lastOp.name \in {"add", "update", "delete", "sort"} /\ ReturnedNormally)
        => file.items = Snapshot(employees).items

\* C30: for one relational adapter instance, whenever an add, update or
\* delete call returns normally, the adapter's in-memory mirror equals the
\* store's rows ordered by id: same ids, same field values.
C30_MirrorEqualsStore ==
    (lastOp.name \in {"add", "update", "delete"} /\ ReturnedNormally)
        => /\ Len(employees) = Len(store)
           /\ \A i \in 1..Len(store) :
                 /\ employees[i].employee_id = store[i].employee_id
                 /\ employees[i].first_name = store[i].first_name
                 /\ employees[i].last_name = store[i].last_name
                 /\ employees[i].patronymic = store[i].patronymic
                 /\ employees[i].salary = store[i].salary

\* C31: after every add, update, delete or write_all of the reconciling
\* adapter that returned, the mirror and the table hold the same entities
\* with the same ids: an added entity has in the mirror the id of its row,
\* and what write_all wrote is what the mirror holds.
C31_MirrorHasStoreIds ==
    (lastOp.name \in {"add", "update", "delete", "write_all"} /\ ReturnedNormally)
        => Ids(employees) = Ids(store)

\* C32: count of a relational adapter reflects the current rows of the
\* table, also when a second adapter on the same table has added or deleted
\* a row: every count() returns the number of rows.
C32_CountIsStoreRows ==
    lastOp.name = "count" => result.val = Len(store)

Finished == {c \in 1..Len(calls) : calls[c].pc = "done"}

\* C33: when the constructions of the connection-parameter holder do not
\* interleave, every construction returns the same holder, one object only
\* is ever created, and its parameters are the first set supplied, whether
\* a later construction passes the same set or another.
C33_HolderKeepsFirstParams ==
    /\ Len(created) <= 1
    /\ \A c \in Finished :
          /\ calls[c].returned = 1
          /\ created[calls[c].returned] = calls[1].params

\* three constructions have returned: the second with the parameters of the
\* first, the third with others
C33_Witness ==
    /\ Finished = 1..3
    /\ calls[2].params = calls[1].params
    /\ calls[3].params # calls[1].params

\* the calls that found no holder and created one
Creators == {c \in 1..Len(calls) : calls[c].created}

\* the connection parameters of the holder a finished call returned
Held(c) == created[calls[c].returned]

NamesOnFile == {file.items[i].first_name : i \in 1..Len(file.items)}

\* C35: with two instances on one file, each keeping its own list, the file
\* after an add is the list of the instance that added and nothing else:
\* what the other instance added since this one loaded is not in it.
C35_FileIsTheWritersList ==
    /\ (lastOp.name = "add" /\ result.kind = "entity") => file = Snapshot(employees)
    /\ (lastOp.name = "peer_add" /\ result.kind = "entity") => file = Snapshot(peer)

\* both instances started from the missing file, the first added "A", then
\* the second added "B": the file holds one record, the second's
C35_Witness ==
    /\ lastOp.name = "peer_add"
    /\ Len(employees) = 1 /\ employees[1].first_name = "A"
    /\ Len(peer) = 1 /\ peer[1].first_name = "B"
    /\ Len(file.items) = 1
    /\ NamesOnFile = {"B"}

\* the number of update calls observer o received
Deliveries(n, o) == Cardinality({i \in 1..Len(n) : n[i].observer = o})

\* C36: during the notify of an add that returned, every observer attached
\* when the notify started receives the event exactly once, also when an
\* update detaches an observer.
C36_EveryAttachedObserverOnce ==
    [][(lastOp'.name = "notifying_add" /\ result'.kind = "entity")
          => \A o \in Attached(observers) : Deliveries(notified', o) = 1]_vars

\* C37: when add on the notifying wrapper raises, the list and the file of
\* the inner repository are as before the call.
C37_RaisedAddAddsNothing ==
    [][(lastOp'.name = "notifying_add" /\ result'.kind \notin {"entity"})
          => UNCHANGED <<employees, file>>]_vars

\* the answers of the reading operations on the list emps
Answers(emps) ==
    [count |-> Len(emps),
     by_id |-> [id \in 0..(MaxId + 1) |-> get_by_id(emps, id)],
     page |-> [kn \in (1..MaxK) \X (1..MaxN) |-> get_k_n_short_list(emps, kn[1], kn[2])],
     root_page |-> [kn \in (1..MaxK) \X (1..MaxN) |->
                        get_k_n_short_list_root(emps, kn[1], kn[2])]]

\* C38: sort_by on a file backend leaves the in-memory list as it was, in
\* the same order: count, get_by_id of every id and every page answer the
\* same before and after the call, whether the field was valid or not.
C38_SortLeavesListAlone ==
    [][lastOp'.name = "sort"
          => /\ employees' = employees
             /\ Answers(employees') = Answers(employees)]_vars

\* a sort returned a list in another order than the one the instance holds
C38_Witness ==
    /\ lastOp.name = "sort"
    /\ result.kind = "list"
    /\ Len(employees) >= 2
    /\ result.val # employees
    /\ Ids(result.val) # Ids(employees)

\* C39: a file backend constructed on a file with malformed content holds
\* no employee, and its first add overwrites that file: the file then holds
\* exactly one record, the added employee with id 1, and nothing of its
\* previous content.
C39_FirstAddOverwritesMalformedFile ==
    [][(lastOp.name = "construct" /\ lastOp'.name = "add" /\ result'.kind = "entity")
          => /\ file'.kind = "list"
             /\ Len(file'.items) = 1
             /\ file'.items[1].employee_id = 1
             /\ file'.items[1].first_name = lastOp'.args.first_name
             /\ file'.items[1].salary = lastOp'.args.salary
             /\ file' # file]_vars

\* the backend was constructed on one of the malformed files and its first
\* add has run: the file holds the added employee alone
C39_Witness ==
    /\ lastOp.name = "add"
    /\ result.kind = "entity"
    /\ result.val.first_name = "B"
    /\ file = Snapshot(<<result.val>>)
    /\ employees = <<result.val>>
    /\ result.val.employee_id = 1

====
